---- MODULE Spec2Model ----
(***************************************************************************)
(* The editing state synchronisation core of simple-table:                 *)
(*   src/src/views/TableView.vue      (document mirror, debounce, backend) *)
(*   src/src/components/TableEditor.vue (edit buffer of the grid)          *)
(*   src/src/components/CellEditor.vue  (single-line editor bar)           *)
(*                                                                         *)
(* Every action is one event handler run to completion, followed by the    *)
(* flush of the Vue watchers it triggered (flush 'pre', one microtask      *)
(* later, before any other event): first the watchers of TableView in the  *)
(* order they were triggered, then the watchers of its child TableEditor.  *)
(* Strings are sequences of one-character strings; indexes are 0-based as  *)
(* in the source and shifted by one where a TLA+ sequence is indexed.      *)
(***************************************************************************)
EXTENDS Integers, Sequences, FiniteSets, TLC

(***************************************************************************)
(* Bounds of the model.                                                    *)
(***************************************************************************)
\* keystroke events (grid input or editor bar input) in one behaviour
MaxTyping == 2
\* grid clicks in one behaviour
MaxClicks == 2
\* keystrokes in one behaviour that exercises the debounce
MaxBurst == 3
\* keystrokes in one behaviour that exercises undo
MaxUndoTyping == 1
\* structural commands in one behaviour that exercises them
MaxCommands == 2
MaxReplays == 2
\* sheet changes in one behaviour
MaxSheetChanges == 2
\* sheet changes in one behaviour that exercises the selection memory
MaxRoundTrips == 5
\* backend calls in flight beyond which no event dispatches another
MaxInFlight == 1
MaxConcurrent == 2
\* delete-sheet commands: as many as the document has sheets
MaxDeletes == 3

(***************************************************************************)
(* Program constants.                                                      *)
(***************************************************************************)
\* setTimeout(debouncedSave, 500)
DebounceMs == 500

(***************************************************************************)
(* Strings.                                                                *)
(***************************************************************************)
EmptyStr == << >>
UndefinedStr == <<"u", "n", "d", "e", "f", "i", "n", "e", "d">>
TrueStr == <<"t", "r", "u", "e">>
FalseStr == <<"f", "a", "l", "s", "e">>
InfinityStr == <<"I", "n", "f", "i", "n", "i", "t", "y">>

Digits == {"0", "1", "2", "3", "4", "5", "6", "7", "8", "9"}

DigitVal(ch) ==
    CASE ch = "0" -> 0 [] ch = "1" -> 1 [] ch = "2" -> 2 [] ch = "3" -> 3
      [] ch = "4" -> 4 [] ch = "5" -> 5 [] ch = "6" -> 6 [] ch = "7" -> 7
      [] ch = "8" -> 8 [] OTHER -> 9

DigitChar(n) ==
    CASE n = 0 -> "0" [] n = 1 -> "1" [] n = 2 -> "2" [] n = 3 -> "3"
      [] n = 4 -> "4" [] n = 5 -> "5" [] n = 6 -> "6" [] n = 7 -> "7"
      [] n = 8 -> "8" [] OTHER -> "9"

\* String.prototype.toLowerCase on the letters of the model's alphabet
LowerChar(ch) ==
    CASE ch = "T" -> "t" [] ch = "R" -> "r" [] ch = "U" -> "u" [] ch = "E" -> "e"
      [] ch = "F" -> "f" [] ch = "A" -> "a" [] ch = "L" -> "l" [] ch = "S" -> "s"
      [] ch = "I" -> "i" [] ch = "N" -> "n"
      [] OTHER -> ch

toLowerCase(str) == [i \in 1..Len(str) |-> LowerChar(str[i])]

IsSpace(ch) == ch = " "

RECURSIVE TrimLeft(_)
TrimLeft(str) ==
    IF str # << >> /\ IsSpace(Head(str)) THEN TrimLeft(Tail(str)) ELSE str

RECURSIVE TrimRight(_)
TrimRight(str) ==
    IF str # << >> /\ IsSpace(str[Len(str)])
    THEN TrimRight(SubSeq(str, 1, Len(str) - 1))
    ELSE str

Trim(str) == TrimRight(TrimLeft(str))

AllDigits(str) == str # << >> /\ \A i \in 1..Len(str) : str[i] \in Digits

RECURSIVE DigitsValue(_)
DigitsValue(str) ==
    IF str = << >> THEN 0
    ELSE 10 * DigitsValue(SubSeq(str, 1, Len(str) - 1)) + DigitVal(str[Len(str)])

RECURSIVE NatStr(_)
NatStr(n) ==
    IF n < 10 THEN <<DigitChar(n)>> ELSE NatStr(n \div 10) \o <<DigitChar(n % 10)>>

(***************************************************************************)
(* Number(value) followed by String(num), on the strings of the model's    *)
(* alphabet (decimal integers with an optional sign, surrounded by         *)
(* whitespace, and Infinity): the canonical text of the number, or NaNStr. *)
(* Number("") and Number("  ") are 0; Number("-0") prints as "0".          *)
(***************************************************************************)
NaNStr == <<"N", "a", "N">>

NumberStr(str) ==
    LET t == Trim(str)
        signed == t # << >> /\ Head(t) \in {"-", "+"}
        neg == t # << >> /\ Head(t) = "-"
        body == IF signed THEN Tail(t) ELSE t
    IN  IF t = << >> THEN <<"0">>
        ELSE IF body = InfinityStr
             THEN (IF neg THEN <<"-">> ELSE << >>) \o InfinityStr
        ELSE IF AllDigits(body)
             THEN IF DigitsValue(body) = 0 THEN <<"0">>
                  ELSE (IF neg THEN <<"-">> ELSE << >>) \o NatStr(DigitsValue(body))
        ELSE NaNStr

(***************************************************************************)
(* Cell values: text, number, boolean, null, and undefined (a cell missing *)
(* from a short row, or a hole of a sparse row).  A number is kept as its  *)
(* canonical text, a boolean as "true"/"false".                            *)
(***************************************************************************)
Null == [t |-> "null", v |-> << >>]
Undef == [t |-> "undef", v |-> << >>]
Text(str) == [t |-> "text", v |-> str]
Num(str) == [t |-> "num", v |-> str]
Bool(str) == [t |-> "bool", v |-> str]

\* String(value) of JavaScript
String(cell) ==
    CASE cell.t = "null" -> <<"n", "u", "l", "l">>
      [] cell.t = "undef" -> UndefinedStr
      [] OTHER -> cell.v

\* /^0\d/.test(value)
LeadingZeroAlone(str) == Len(str) >= 1 /\ str[1] = "0"

LeadingZero(str) == Len(str) >= 2 /\ str[1] = "0" /\ str[2] \in Digits

parseCellValue(value) ==
    IF value = EmptyStr THEN Null
    ELSE IF LeadingZero(value) THEN Text(value)
    ELSE IF NumberStr(value) # NaNStr THEN Num(NumberStr(value))
    ELSE IF toLowerCase(value) = TrueStr THEN Bool(TrueStr)
    ELSE IF toLowerCase(value) = FalseStr THEN Bool(FalseStr)
    ELSE Text(value)

getCellValue(cell) ==
    IF cell.t \in {"null", "undef"} THEN EmptyStr ELSE String(cell)

(***************************************************************************)
(* The document mirror: fileData.sheets, each sheet with its rows.  A      *)
(* sheet carries an id that stands for the identity of its JavaScript      *)
(* object (a watcher of the rows fires when the object is replaced, also   *)
(* by an equal one).                                                       *)
(***************************************************************************)
Max(a, b) == IF a >= b THEN a ELSE b

RowExists(rows, r) == r >= 0 /\ r < Len(rows)

\* rows[r]?.[c]
At(rows, r, c) ==
    IF RowExists(rows, r) /\ c >= 0 /\ c < Len(rows[r + 1])
    THEN rows[r + 1][c + 1]
    ELSE Undef

\* row[c] = val, on an array that may be shorter than c (the gap is holes)
PutCol(row, c, val) ==
    [i \in 1..Max(Len(row), c + 1) |->
        IF i = c + 1 THEN val ELSE IF i <= Len(row) THEN row[i] ELSE Undef]

\* rows[r][c] = val, for an existing row r
SetAt(rows, r, c, val) == [rows EXCEPT ![r + 1] = PutCol(@, c, val)]

\* Array.prototype.splice(i, 1) and splice(i, 0, x)
RemoveAt(seq, i) ==
    IF i >= 0 /\ i < Len(seq)
    THEN SubSeq(seq, 1, i) \o SubSeq(seq, i + 2, Len(seq))
    ELSE seq

InsertAt(seq, i, x) ==
    LET k == IF i > Len(seq) THEN Len(seq) ELSE i
    IN  SubSeq(seq, 1, k) \o <<x>> \o SubSeq(seq, k + 1, Len(seq))

NoSheet == [id |-> -1, name |-> << >>, rows |-> << >>]

\* computed currentSheet: null without a document or without sheets,
\* undefined when the index addresses no sheet
currentSheet(s) ==
    IF s.fileData.open /\ s.currentSheetIndex >= 0
       /\ s.currentSheetIndex < Len(s.fileData.sheets)
    THEN s.fileData.sheets[s.currentSheetIndex + 1]
    ELSE NoSheet

HasSheet(s) == currentSheet(s) # NoSheet

\* computed tableData
tableData(s) == currentSheet(s).rows

RECURSIVE MaxLen(_)
MaxLen(rows) ==
    IF rows = << >> THEN 0 ELSE Max(Len(Head(rows)), MaxLen(Tail(rows)))

\* computed columns: one per index below the longest row
columns(s) == MaxLen(tableData(s))

\* currentSheet.value.rows = rows
WithRows(s, rows) ==
    [s EXCEPT !.fileData.sheets[s.currentSheetIndex + 1].rows = rows]

(***************************************************************************)
(* Selection.  A selection object has an id, the identity of the object:   *)
(* assigning the object a ref already holds triggers no watcher.           *)
(***************************************************************************)
NoCell == [row |-> -1, col |-> -1, id |-> -1]

SameCell(a, row, col) == a # NoCell /\ a.row = row /\ a.col = col

\* the objects the per-sheet memory refers to
\* sheetSelectedCells.get(index) and .set(index, cell) of the per-sheet
\* memory, a Map keyed by sheet index (NoCell: no entry)
MemGet(mem, index) == IF index \in DOMAIN mem THEN mem[index] ELSE NoCell

MemSet(mem, index, cell) ==
    [i \in (DOMAIN mem) \cup {index} |-> IF i = index THEN cell ELSE mem[i]]

IdsInUse(s) ==
    {s.sheetSelectedCells[i].id : i \in DOMAIN s.sheetSelectedCells}

\* a fresh object: the smallest id no reference that outlives the event holds
NewId(s) ==
    CHOOSE n \in 0..(Cardinality(IdsInUse(s)) + 1) :
        /\ n \notin IdsInUse(s)
        /\ \A m \in 0..(n - 1) : m \in IdsInUse(s)

\* computed currentCellValue
currentCellValue(s) ==
    IF s.selectedCell = NoCell \/ ~HasSheet(s) THEN Null
    ELSE LET v == At(tableData(s), s.selectedCell.row, s.selectedCell.col)
         IN  IF v = Undef THEN Null ELSE v

(***************************************************************************)
(* The Pending-Changes Queue: a JavaScript Map, iterated in the order of   *)
(* first insertion of its keys; set on a present key keeps its position.   *)
(* An entry's field sheet is history, which no handler reads: the id of    *)
(* the sheet the user typed the entry's text on, -1 for an entry that no   *)
(* keystroke scheduled.                                                    *)
(***************************************************************************)
PendingIndex(p, row, col) ==
    {i \in 1..Len(p) : p[i].row = row /\ p[i].col = col}

\* a queue that keeps every update instead of the latest per key
PendingSetAppend(p, row, col, value) ==
    Append(p, [row |-> row, col |-> col, value |-> value, sheet |-> -1,
               now |-> <<row, col>>])

PendingSet(p, row, col, value) ==
    LET e == [row |-> row, col |-> col, value |-> value, sheet |-> -1,
              now |-> <<row, col>>]
    IN  IF PendingIndex(p, row, col) # {}
        THEN [i \in 1..Len(p) |-> IF i \in PendingIndex(p, row, col) THEN e ELSE p[i]]
        ELSE Append(p, e)

(***************************************************************************)
(* The edit buffer of the grid: editingValue, a map from cell key to text. *)
(***************************************************************************)
getKey(row, col) == <<row, col>>

NoKey == <<-1, -1>>

BufHas(ev, key) == key \in DOMAIN ev

BufPut(ev, key, str) ==
    [k \in (DOMAIN ev) \cup {key} |-> IF k = key THEN str ELSE ev[k]]

BufDel(ev, key) == [k \in (DOMAIN ev) \ {key} |-> ev[k]]

NoBuf == [k \in {} |-> EmptyStr]

\* getDisplayValue: the buffer entry wins while present
getDisplayValue(s, row, col) ==
    IF BufHas(s.editingValue, getKey(row, col))
    THEN s.editingValue[getKey(row, col)]
    ELSE getCellValue(At(tableData(s), row, col))

isEditing(s, row, col) == s.editingCell = getKey(row, col)

\* the grid renders a cell for every row and every column index
InGrid(s, row, col) ==
    RowExists(tableData(s), row) /\ col >= 0 /\ col < columns(s)

(***************************************************************************)
(* State.                                                                  *)
(***************************************************************************)
VARIABLES
    \* TableView.vue
    fileData,            \* the store's document: [open, sheets]
    currentSheetIndex,
    selectedCell,
    sheetSelectedCells,  \* per-sheet memory, keyed by sheet index
    cellEditorValue,     \* text of the editor bar
    autoScroll,
    debounceTimer,       \* handle of the timer armed last (0: none yet)
    timers,              \* handles of the timers armed and not yet fired
    pendingChanges,
    hasChanges,
    isLoading,
    isFileLoading,
    isSearching,
    canUndo,
    canRedo,
    \* TableEditor.vue
    editingValue,
    editingCell,
    isManualClick,
    \* the DOM: which input has the focus, "none", "cell" or "bar"
    focus,
    \* the backend: calls dispatched and not yet answered, oldest first
    calls,
    \* the views unmounted with a debounce timer armed: what the callback of
    \* each timer still holds
    unmounted,
    \* the backend's editor state: whether its history holds an operation to
    \* undo, and one to redo
    backend,
    \* history: per cell, the text the user typed last into it and the
    \* set_cell call dispatched last for it
    typed,
    lastSent,
    \* history: the set_cell calls the last event dispatched
    sent,
    \* history: the position the last event scrolled the table to
    scrolled,
    \* history: the last event and what it did
    last,
    \* history: the run of text updates to one cell that is under way
    burst,
    \* events left to the user
    budget

vars ==
    <<fileData, currentSheetIndex, selectedCell, sheetSelectedCells,
      cellEditorValue, autoScroll, debounceTimer, timers, pendingChanges,
      hasChanges, isLoading, isFileLoading, isSearching, canUndo, canRedo,
      editingValue, editingCell,
      isManualClick, focus, calls, unmounted, backend, typed, lastSent, sent, scrolled, last, burst,
      budget>>

\* The state as one record, which the handlers transform.  jobs, barOld,
\* selOld and selFresh belong to the scheduler of the watchers: the watcher
\* jobs queued, the value each watcher saw when it ran last, and whether the
\* selection was replaced by a new object.  sent collects the set_cell calls
\* the event dispatches.
NoScroll == <<-1, -1>>

St ==
    [fileData |-> fileData, currentSheetIndex |-> currentSheetIndex,
     selectedCell |-> selectedCell, sheetSelectedCells |-> sheetSelectedCells,
     cellEditorValue |-> cellEditorValue, autoScroll |-> autoScroll,
     debounceTimer |-> debounceTimer, timers |-> timers,
     pendingChanges |-> pendingChanges, hasChanges |-> hasChanges,
     isLoading |-> isLoading, isFileLoading |-> isFileLoading,
     isSearching |-> isSearching, canUndo |-> canUndo, canRedo |-> canRedo,
     editingValue |-> editingValue, editingCell |-> editingCell,
     isManualClick |-> isManualClick, focus |-> focus, calls |-> calls,
     unmounted |-> unmounted, backend |-> backend,
     typed |-> typed, lastSent |-> lastSent, burst |-> burst, sent |-> << >>,
     scrolled |-> NoScroll,
     jobs |-> << >>, barOld |-> cellEditorValue, selOld |-> selectedCell.id,
     selFresh |-> FALSE]

(***************************************************************************)
(* Assignments to the two watched refs of TableView.  A ref triggers its   *)
(* watcher when the value assigned differs from the one it holds; a job    *)
(* already queued is not queued again.                                     *)
(***************************************************************************)
Queue(jobs, j) ==
    IF \E i \in 1..Len(jobs) : jobs[i] = j THEN jobs ELSE Append(jobs, j)

SetBar(s, str) ==
    IF str = s.cellEditorValue THEN s
    ELSE [s EXCEPT !.cellEditorValue = str, !.jobs = Queue(@, "bar")]

SetSel(s, cell) ==
    IF cell.id = s.selectedCell.id THEN s
    ELSE [s EXCEPT !.selectedCell = cell, !.jobs = Queue(@, "sel")]

\* selectedCell.value = { row, col }: a new object, which always differs
\* from the one the ref holds
SelectNew(s, row, col) ==
    [s EXCEPT !.selectedCell = [row |-> row, col |-> col, id |-> NewId(s)],
              !.jobs = Queue(@, "sel"), !.selFresh = TRUE]

(***************************************************************************)
(* The debounce timer.                                                     *)
(***************************************************************************)
\* if (debounceTimer) clearTimeout(debounceTimer)
clearTimeout(s) == s.timers \ {s.debounceTimer}

\* setTimeout: a handle no armed timer has
setTimeout(armed) ==
    CHOOSE n \in 1..(Cardinality(armed) + 1) :
        n \notin armed /\ \A m \in 1..(n - 1) : m \in armed

\* pendingChanges.set(...); clearTimeout; debounceTimer = setTimeout(...)
\* (burst counts the updates scheduled in a row for one cell)
schedule(s, row, col, value) ==
    [s EXCEPT !.pendingChanges = PendingSet(@, row, col, value),
              !.timers = clearTimeout(s) \cup {setTimeout(clearTimeout(s))},
              !.debounceTimer = setTimeout(clearTimeout(s)),
              !.burst = [cell |-> getKey(row, col), text |-> value,
                         n |-> IF @.cell = getKey(row, col) THEN @.n + 1 ELSE 1]]

(***************************************************************************)
(* watch(selectedCell): the editor bar takes the text of the selected cell *)
(***************************************************************************)
watchSelectedCell(s) ==
    IF s.selectedCell # NoCell
    THEN LET value == currentCellValue(s)
         IN  SetBar(s, IF value # Null THEN String(value) ELSE EmptyStr)
    ELSE SetBar(s, EmptyStr)

(***************************************************************************)
(* The optimistic write shared by watch(cellEditorValue) and               *)
(* handleCellEditing: compare with String(original), write the raw text,   *)
(* schedule.  Writing into a row that does not exist throws a TypeError,   *)
(* which ends the handler before it schedules anything.                    *)
(***************************************************************************)
originalValueStr(s, row, col) ==
    LET originalValue == At(tableData(s), row, col)
    IN  IF originalValue # Null THEN String(originalValue) ELSE EmptyStr

optimisticWrite(s, row, col, value) ==
    IF value # originalValueStr(s, row, col)
    THEN IF RowExists(tableData(s), row)
         THEN schedule(WithRows(s, SetAt(tableData(s), row, col, Text(value))),
                       row, col, value)
         ELSE s
    ELSE schedule(s, row, col, value)

\* watch(cellEditorValue)
watchCellEditorValue(s) ==
    IF s.selectedCell = NoCell \/ ~HasSheet(s) THEN s
    ELSE optimisticWrite(s, s.selectedCell.row, s.selectedCell.col,
                         s.cellEditorValue)

\* handleCellEditing(row, col, value)
handleCellEditing(s, row, col, value) ==
    LET s1 == IF SameCell(s.selectedCell, row, col) THEN SetBar(s, value) ELSE s
    IN  IF ~HasSheet(s1) THEN s1 ELSE optimisticWrite(s1, row, col, value)

(***************************************************************************)
(* The flush of TableView's watcher jobs, first queued first run; a job    *)
(* runs its callback only if the watched value differs from the one the    *)
(* watcher saw last.                                                       *)
(***************************************************************************)
RECURSIVE RunJobs(_)
RunJobs(s) ==
    IF s.jobs = << >> THEN s
    ELSE LET j == Head(s.jobs)
             s1 == [s EXCEPT !.jobs = Tail(@)]
         IN  IF j = "sel"
             THEN IF s1.selFresh \/ s1.selectedCell.id # s1.selOld
                  THEN RunJobs(watchSelectedCell(
                           [s1 EXCEPT !.selOld = s1.selectedCell.id]))
                  ELSE RunJobs(s1)
             ELSE IF s1.cellEditorValue # s1.barOld
                  THEN RunJobs(watchCellEditorValue(
                           [s1 EXCEPT !.barOld = s1.cellEditorValue]))
                  ELSE RunJobs(s1)

(***************************************************************************)
(* TableEditor's watchers.                                                 *)
(***************************************************************************)
\* watch(props.data, deep): the buffer entry of the selected cell follows
\* the document
\* a buffer that does not follow the document
watchDataKeepsBuffer(s) == s

watchData(s) ==
    IF s.selectedCell # NoCell
    THEN LET key == getKey(s.selectedCell.row, s.selectedCell.col)
         IN  IF BufHas(s.editingValue, key)
             THEN [s EXCEPT !.editingValue = BufPut(@, key,
                      getCellValue(At(tableData(s), s.selectedCell.row,
                                      s.selectedCell.col)))]
             ELSE s
    ELSE s

\* watch(props.selectedCell): leave or enter edit mode
\* the scroll position that puts cell (row, col) in the middle of a table
\* of the default size (800 by 600): rows are 40 high, columns 120 wide, the
\* row numbers 60 wide
centre(row, col) ==
    <<Max(0, row * 40 - 600 \div 2 + 40 \div 2),
      Max(0, 60 + col * 120 - 800 \div 2 + 120 \div 2)>>

watchPropsSelectedCell(s) ==
    IF s.selectedCell = NoCell
    THEN [s EXCEPT !.editingCell = NoKey, !.editingValue = NoBuf]
    ELSE LET newKey == getKey(s.selectedCell.row, s.selectedCell.col)
         IN  IF s.editingCell = newKey THEN s
             ELSE [s EXCEPT !.isManualClick = FALSE,
                            !.editingCell = newKey,
                            !.editingValue = BufPut(NoBuf, newKey,
                                getCellValue(At(tableData(s), s.selectedCell.row,
                                                s.selectedCell.col))),
                            !.scrolled =
                                IF s.autoScroll
                                THEN centre(s.selectedCell.row, s.selectedCell.col)
                                ELSE @]

\* the jobs of TableEditor run after those of its parent: the data watcher
\* if the rows changed (in place, or the sheet object was replaced), the
\* selection watcher if the selection object was replaced
EditorFlush(pre, s) ==
    LET dataTrig == \/ tableData(s) # tableData(pre)
                    \/ currentSheet(s).id # currentSheet(pre).id
        selTrig == s.selFresh \/ s.selectedCell.id # pre.selectedCell.id
        s1 == IF dataTrig THEN watchData(s) ELSE s
    IN  IF selTrig THEN watchPropsSelectedCell(s1) ELSE s1

(***************************************************************************)
(* The DOM after rendering: an input that is no longer rendered has lost   *)
(* the focus (no blur event is delivered for a removed element).           *)
(***************************************************************************)
\* while a file is loading a skeleton is shown in place of the editor bar
\* and of the grid
GridShown(s) == ~s.isFileLoading

CellInputRendered(s) ==
    /\ GridShown(s)
    /\ s.editingCell # NoKey /\ InGrid(s, s.editingCell[1], s.editingCell[2])

BarRendered(s) == GridShown(s) /\ s.selectedCell # NoCell /\ s.fileData.open

\* the grid that the skeleton replaces is unmounted: the one mounted after
\* the load starts with an empty buffer and no cell in edit mode
Render(pre, s) ==
    [s EXCEPT !.focus =
                  IF @ = "cell" /\ (~CellInputRendered(s) \/ s.editingCell # pre.editingCell)
                  THEN "none"
                  ELSE IF @ = "bar" /\ ~BarRendered(s) THEN "none"
                  ELSE @,
              !.editingValue = IF GridShown(s) THEN @ ELSE NoBuf,
              !.editingCell = IF GridShown(s) THEN @ ELSE NoKey,
              !.isManualClick = IF GridShown(s) THEN @ ELSE FALSE]

\* a handler's result, its watchers flushed and the view rendered
Settle(pre, s) == Render(pre, EditorFlush(pre, RunJobs(s)))

Commit(s) ==
    /\ fileData' = s.fileData
    /\ currentSheetIndex' = s.currentSheetIndex
    /\ selectedCell' = s.selectedCell
    /\ sheetSelectedCells' = s.sheetSelectedCells
    /\ cellEditorValue' = s.cellEditorValue
    /\ autoScroll' = s.autoScroll
    /\ debounceTimer' = s.debounceTimer
    /\ timers' = s.timers
    /\ pendingChanges' = s.pendingChanges
    /\ hasChanges' = s.hasChanges
    /\ isLoading' = s.isLoading
    /\ isFileLoading' = s.isFileLoading
    /\ isSearching' = s.isSearching
    /\ canUndo' = s.canUndo
    /\ canRedo' = s.canRedo
    /\ editingValue' = s.editingValue
    /\ editingCell' = s.editingCell
    /\ isManualClick' = s.isManualClick
    /\ focus' = s.focus
    /\ calls' = s.calls
    /\ unmounted' = s.unmounted
    /\ backend' = s.backend
    /\ typed' = s.typed
    /\ lastSent' = s.lastSent
    /\ sent' = s.sent
    /\ scrolled' = s.scrolled
    /\ burst' = s.burst

(***************************************************************************)
(* The backend: a call in flight keeps what its continuation captured.     *)
(***************************************************************************)
\* (size is history, which no code reads: the number of rows, columns or
\* sheets the mirror had when the handler of a structural call started;
\* handler names the handler that awaits the call, where the continuation
\* depends on it; contents is the row or column data among the arguments
\* of the call, if they have any; removed is history: the cells a delete
\* handler removed from the mirror)
NoHistory == [can_undo |-> FALSE, can_redo |-> FALSE]

Mutations == {"set_cell", "add_row", "delete_row", "add_column", "delete_column",
              "add_sheet", "delete_sheet"}

NoContents == [given |-> FALSE, cells |-> << >>]

Call(kind) ==
    [kind |-> kind, sheetIndex |-> -1, row |-> -1, col |-> -1,
     oldValue |-> Null, newValue |-> Null, value |-> EmptyStr,
     isCurrentCell |-> FALSE, size |-> 0, handler |-> "none",
     contents |-> NoContents, removed |-> << >>]

invoke(s, call) == [s EXCEPT !.calls = Append(@, call)]

\* handleCellChange up to its await: the set_cell call is dispatched with
\* the active sheet's index, the mirror's current value as old value and
\* the parsed text as new value.  Reading the old value of a row that does
\* not exist throws, and nothing is dispatched.
handleCellChange(s, rowIndex, colIndex, value) ==
    IF ~s.fileData.open \/ ~HasSheet(s) THEN s
    ELSE IF ~RowExists(tableData(s), rowIndex) THEN s
    ELSE LET call == [Call("set_cell") EXCEPT
                         !.sheetIndex = s.currentSheetIndex,
                         !.row = rowIndex, !.col = colIndex,
                         !.oldValue = At(tableData(s), rowIndex, colIndex),
                         !.newValue = parseCellValue(value),
                         !.value = value,
                         !.isCurrentCell = SameCell(s.selectedCell, rowIndex, colIndex)]
         IN  [invoke(s, call) EXCEPT
                 !.sent = Append(@, call),
                 !.lastSent = BufPut(@, <<currentSheet(s).id, rowIndex, colIndex>>,
                                     call.newValue)]

\* debouncedSave: one handleCellChange per queued change, in the queue's
\* iteration order; then the queue is cleared
RECURSIVE saveAll(_, _)
saveAll(s, queue) ==
    IF queue = << >> THEN s
    ELSE saveAll(handleCellChange(s, Head(queue).row, Head(queue).col,
                                  Head(queue).value),
                 Tail(queue))

debouncedSave(s) ==
    [saveAll(s, s.pendingChanges) EXCEPT !.pendingChanges = << >>]

\* updateEditorState up to its await
updateEditorState(s) == invoke(s, Call("get_editor_state"))

(***************************************************************************)
(* applyOperation: the reducer of backend-confirmed operation results.     *)
(***************************************************************************)
Operation(type, sheet_index, row, col, value) ==
    [type |-> type, sheet_index |-> sheet_index, row |-> row, col |-> col,
     value |-> value, name |-> << >>, changes |-> << >>]

NullRowWider(n) == [i \in 1..(n + 1) |-> Null]

NullRow(n) == [i \in 1..n |-> Null]

RECURSIVE applyChanges(_, _)
applyChanges(rows, changes) ==
    IF changes = << >> THEN rows
    ELSE LET ch == Head(changes)
         IN  applyChanges(IF RowExists(rows, ch.row)
                          THEN SetAt(rows, ch.row, ch.col, ch.value)
                          ELSE rows,
                          Tail(changes))

applyRows(rows, op) ==
    CASE op.type = "SetCell" ->
           IF RowExists(rows, op.row) THEN SetAt(rows, op.row, op.col, op.value)
           ELSE rows
      [] op.type = "Batch" -> applyChanges(rows, op.changes)
      [] op.type = "AddRow" ->
           InsertAt(rows, op.row, NullRow(IF rows = << >> THEN 0 ELSE Len(rows[1])))
      [] op.type = "DeleteRow" -> RemoveAt(rows, op.row)
      [] op.type = "AddColumn" ->
           [i \in 1..Len(rows) |-> InsertAt(rows[i], op.col, Null)]
      [] op.type = "DeleteColumn" ->
           [i \in 1..Len(rows) |-> RemoveAt(rows[i], op.col)]
      [] OTHER -> rows

\* the switch of applyOperation, the sheet being there
applySwitch(s, op) ==
    CASE op.type = "AddSheet" ->
           [s EXCEPT !.fileData.sheets[op.sheet_index + 1].name = op.name]
      [] op.type = "DeleteSheet" ->
           LET sheets == RemoveAt(s.fileData.sheets, op.sheet_index)
           IN  [s EXCEPT !.fileData.sheets = sheets,
                         !.currentSheetIndex =
                             IF @ >= Len(sheets) THEN Max(0, Len(sheets) - 1)
                             ELSE @]
      [] OTHER ->
           [s EXCEPT !.fileData.sheets[op.sheet_index + 1].rows =
                         applyRows(@, op)]

applyOperationOnLastSheet(s, op) ==
    IF ~s.fileData.open \/ s.fileData.sheets = << >> THEN s
    ELSE IF op.sheet_index < 0 \/ op.sheet_index >= Len(s.fileData.sheets)
         THEN applySwitch(s, [op EXCEPT !.sheet_index = Len(s.fileData.sheets) - 1])
         ELSE applySwitch(s, op)

applyOperation(s, op) ==
    IF ~s.fileData.open THEN s
    ELSE IF op.sheet_index < 0 \/ op.sheet_index >= Len(s.fileData.sheets) THEN s
    ELSE applySwitch(s, op)

(***************************************************************************)
(* The handlers of the user's events.                                      *)
(***************************************************************************)
\* TableEditor.handleCellClick, and the @select-cell handler it emits to
handleCellClickSelectsOnly(s, row, col) == SelectNew(s, row, col)

handleCellClick(s, row, col) ==
    LET s1 == SelectNew([s EXCEPT !.autoScroll = FALSE], row, col)
    IN  IF s1.editingCell = getKey(row, col) THEN s1
        ELSE [s1 EXCEPT !.editingCell = getKey(row, col), !.isManualClick = TRUE]

\* TableEditor.handleInput, which emits cell-editing to handleCellEditing
handleInput(s, row, col, value) ==
    handleCellEditing([s EXCEPT !.editingValue = BufPut(@, getKey(row, col), value)],
                      row, col, value)

\* TableEditor.handleBlur with the text the input shows
handleBlur(s, row, col, value) ==
    LET originalValue == getCellValue(At(tableData(s), row, col))
        s1 == IF value # originalValue THEN handleCellChange(s, row, col, value)
              ELSE s
    IN  [s1 EXCEPT !.editingValue = BufDel(@, getKey(row, col)),
                   !.editingCell = NoKey]

\* handleCellEditorSubmit: Enter in the editor bar, or its blur
handleCellEditorSubmit(s) ==
    IF s.selectedCell = NoCell THEN s
    ELSE handleCellChange(s, s.selectedCell.row, s.selectedCell.col,
                          s.cellEditorValue)

handleSheetChange(s, index) ==
    LET s1 == IF s.selectedCell # NoCell
              THEN [s EXCEPT !.sheetSelectedCells =
                                 MemSet(@, s.currentSheetIndex, s.selectedCell)]
              ELSE s
        s2 == [SetBar(s1, EmptyStr) EXCEPT !.currentSheetIndex = index]
        savedCell == MemGet(s2.sheetSelectedCells, index)
    IN  IF savedCell # NoCell
        THEN LET s3 == SetSel(s2, savedCell)
                 rows == tableData(s3)
                 s4 == IF HasSheet(s3) /\ RowExists(rows, savedCell.row)
                          /\ At(rows, savedCell.row, savedCell.col) # Null
                       THEN SetBar(s3, String(At(rows, savedCell.row, savedCell.col)))
                       ELSE s3
             IN  [s4 EXCEPT !.autoScroll = TRUE]
        ELSE SetSel(s2, NoCell)

\* handleSearch up to its await
handleSearch(s, query) ==
    IF ~s.fileData.open THEN s
    ELSE invoke([s EXCEPT !.isSearching = TRUE],
                [Call("search") EXCEPT !.value = query])

\* SearchBox.handleSearch: the search event is emitted, through the toolbar
\* to handleSearch of the view, only if the trimmed query is not empty
SearchBox_handleSearchUntrimmed(s, query) ==
    IF query # EmptyStr THEN handleSearch(s, query) ELSE s

SearchBox_handleSearch(s, query) ==
    IF Trim(query) # EmptyStr THEN handleSearch(s, query) ELSE s

\* handleOpenFile from the answer of the file dialog, a file selected, up to
\* its await of read_file
handleOpenFile(s) ==
    invoke([s EXCEPT !.isLoading = TRUE, !.isFileLoading = TRUE], Call("read_file"))

\* handleBack: the store drops the document (the router's push follows, see
\* unmount)
NoDocument == [open |-> FALSE, sheets |-> << >>]

handleBack(s) == [s EXCEPT !.fileData = NoDocument]

\* router.push({ name: "home" }): the table view is unmounted.  Its refs
\* are gone, and the next view mounted starts from new ones; nothing clears
\* the debounce timer, whose callback keeps the queue, the sheet index and
\* the selection of the unmounted view; the continuations of the calls in
\* flight belong to the unmounted view too.
unmount(s) ==
    [s EXCEPT !.currentSheetIndex = 0, !.selectedCell = NoCell,
              !.sheetSelectedCells = [i \in DOMAIN @ |-> NoCell],
              !.cellEditorValue = EmptyStr, !.autoScroll = FALSE,
              !.debounceTimer = 0, !.timers = {}, !.pendingChanges = << >>,
              !.hasChanges = FALSE, !.isLoading = FALSE, !.isFileLoading = FALSE,
              !.isSearching = FALSE, !.canUndo = FALSE, !.canRedo = FALSE,
              !.editingValue = NoBuf, !.editingCell = NoKey,
              !.isManualClick = FALSE, !.focus = "none",
              !.calls = [i \in 1..Len(@) |-> [@[i] EXCEPT !.handler = "unmounted"]],
              !.unmounted =
                  IF s.timers = {} THEN @
                  ELSE Append(@, [pendingChanges |-> s.pendingChanges,
                                  currentSheetIndex |-> s.currentSheetIndex,
                                  selectedCell |-> s.selectedCell])]

\* debouncedSave run by the timer of an unmounted view: handleCellChange
\* reads the document through the computed fileData of that view (seen) and
\* uses that view's sheet index and selection; the calls go to the backend
unmountedSave(s, view, seen) ==
    LET old == [s EXCEPT !.fileData = seen,
                         !.currentSheetIndex = view.currentSheetIndex,
                         !.selectedCell = view.selectedCell,
                         !.calls = << >>]
        done == saveAll(old, view.pendingChanges)
    IN  [s EXCEPT !.calls = @ \o [i \in 1..Len(done.calls) |->
                                     [done.calls[i] EXCEPT !.handler = "unmounted"]],
                  !.sent = done.sent,
                  !.lastSent = done.lastSent]

\* handleSearchResultClick
handleSearchResultClickStays(s, result) ==
    SelectNew([s EXCEPT !.autoScroll = TRUE], result.row, result.col)

handleSearchResultClick(s, result) ==
    LET s1 == IF result.sheet_index # s.currentSheetIndex
              THEN [s EXCEPT !.currentSheetIndex = result.sheet_index]
              ELSE s
    IN  SelectNew([s1 EXCEPT !.autoScroll = TRUE], result.row, result.col)

\* handleDeleteSheet up to its await
handleDeleteSheet(s) ==
    IF ~s.fileData.open \/ Len(s.fileData.sheets) <= 1 THEN s
    ELSE LET deletedIndex == s.currentSheetIndex
             newIndex == IF deletedIndex > 0 THEN deletedIndex - 1 ELSE 0
         IN  invoke([s EXCEPT !.fileData.sheets = RemoveAt(@, deletedIndex),
                              !.currentSheetIndex = newIndex,
                              !.isLoading = TRUE],
                    [Call("delete_sheet") EXCEPT !.sheetIndex = deletedIndex,
                                                 !.size = Len(s.fileData.sheets)])

\* handleUndo and handleRedo up to their await
handleUndo(s) ==
    IF ~s.canUndo THEN s ELSE invoke([s EXCEPT !.isLoading = TRUE], Call("undo"))

handleRedo(s) ==
    IF ~s.canRedo THEN s ELSE invoke([s EXCEPT !.isLoading = TRUE], Call("redo"))

\* handleAddRow up to its await: a row of nulls, as wide as the first row, is
\* pushed to the mirror before the call
handleAddRow(s) ==
    IF ~HasSheet(s) THEN s
    ELSE LET rows == tableData(s)
             colCount == IF rows = << >> THEN 0 ELSE Len(rows[1])
             s1 == WithRows(s, Append(rows, NullRow(colCount)))
         IN  invoke([s1 EXCEPT !.isLoading = TRUE],
                    [Call("add_row") EXCEPT !.sheetIndex = s.currentSheetIndex,
                                            !.row = Len(tableData(s1)) - 1,
                                            !.size = Len(rows)])

\* handleDeleteRow(index) up to its await
handleDeleteRow(s, index) ==
    IF ~HasSheet(s) THEN s
    ELSE invoke([WithRows(s, RemoveAt(tableData(s), index)) EXCEPT !.isLoading = TRUE],
                [Call("delete_row") EXCEPT !.sheetIndex = s.currentSheetIndex,
                                           !.row = index,
                                           !.size = Len(tableData(s)),
                                           !.removed = IF RowExists(tableData(s), index)
                                                       THEN tableData(s)[index + 1]
                                                       ELSE << >>])

\* handleAddColumn up to its await: null is pushed to every row
handleAddColumn(s) ==
    IF ~HasSheet(s) THEN s
    ELSE LET rows == tableData(s)
         IN  invoke([WithRows(s, [i \in 1..Len(rows) |-> Append(rows[i], Null)])
                        EXCEPT !.isLoading = TRUE],
                    [Call("add_column") EXCEPT !.sheetIndex = s.currentSheetIndex,
                                               !.size = MaxLen(rows)])

\* handleDeleteColumn(index) up to its await
handleDeleteColumn(s, index) ==
    IF ~HasSheet(s) THEN s
    ELSE LET rows == tableData(s)
         IN  invoke([WithRows(s, [i \in 1..Len(rows) |-> RemoveAt(rows[i], index)])
                        EXCEPT !.isLoading = TRUE],
                    [Call("delete_column") EXCEPT !.sheetIndex = s.currentSheetIndex,
                                                  !.col = index,
                                                  !.size = MaxLen(rows),
                                                  !.removed = [i \in 1..Len(rows) |->
                                                                  At(rows, i - 1, index)]])

\* the sheet handleAddSheet pushes: five rows of five nulls, named after its
\* position (the name is not modelled beyond being there)
NewSheetId(sheets) ==
    CHOOSE n \in 1..(Len(sheets) + 1) : \A i \in 1..Len(sheets) : sheets[i].id # n

NewSheet(sheets) ==
    [id |-> NewSheetId(sheets), name |-> <<"S">>,
     rows |-> [i \in 1..5 |-> NullRow(5)]]

\* handleAddSheet up to its await; the call keeps newSheetIndex
handleAddSheet(s) ==
    IF ~s.fileData.open THEN s
    ELSE invoke([s EXCEPT !.fileData.sheets = Append(@, NewSheet(@)),
                          !.isLoading = TRUE],
                [Call("add_sheet") EXCEPT !.sheetIndex = Len(s.fileData.sheets),
                                          !.size = Len(s.fileData.sheets)])

(***************************************************************************)
(* The continuations that run when the backend answers.                    *)
(***************************************************************************)
\* finally { isLoading.value = false }
finallyKeepsFlag(s) == s

finally(s) == [s EXCEPT !.isLoading = FALSE]

\* handleCellChange after a successful set_cell
setCellDone(s, call) ==
    updateEditorState(
        [(IF call.isCurrentCell THEN SetBar(s, call.value) ELSE s)
            EXCEPT !.hasChanges = TRUE])

\* handleUndo, handleRedo after the backend returned the operation
undoDone(s, op) ==
    updateEditorState([applyOperation(s, op) EXCEPT !.hasChanges = TRUE])

\* a structural handler after its call succeeded
structuralDoneNoRefresh(s) == [s EXCEPT !.hasChanges = TRUE]

structuralDone(s) == updateEditorState([s EXCEPT !.hasChanges = TRUE])

\* handleAddSheet after add_sheet succeeded: the selection and the bar are
\* cleared and the new sheet becomes the active one
addSheetDone(s, call) ==
    updateEditorState(
        [SetBar(SetSel(s, NoCell), EmptyStr)
            EXCEPT !.currentSheetIndex = call.sheetIndex, !.hasChanges = TRUE])

\* handleSearch after search answered or failed: finally
searchDone(s) == [s EXCEPT !.isSearching = FALSE]

\* handleOpenFile after read_file answered: the store takes the document
readFileDone(s, sheets) ==
    invoke([s EXCEPT !.fileData = [open |-> TRUE, sheets |-> sheets],
                     !.currentSheetIndex = 0,
                     !.hasChanges = FALSE],
           [Call("get_editor_state") EXCEPT !.handler = "open"])

\* the finally block of handleOpenFile
finallyOpen(s) == [s EXCEPT !.isLoading = FALSE, !.isFileLoading = FALSE]

\* updateEditorState after get_editor_state answered, and the finally block
\* of the handler that awaited it
editorStateDone(s, state) ==
    finally([s EXCEPT !.canUndo = state.can_undo, !.canRedo = state.can_redo])

\* the same awaited by handleOpenFile
openDone(s, state) ==
    finallyOpen([s EXCEPT !.canUndo = state.can_undo, !.canRedo = state.can_redo])

(***************************************************************************)
(* The document the behaviours start from, and the inputs of the events.   *)
(* Row 1 of the first sheet is short: its cell (1,1) is missing.           *)
(***************************************************************************)
InitSheets ==
    << [id |-> 1, name |-> <<"A">>,
        rows |-> << <<Num(<<"7">>), Null>>, <<Null>> >>],
       [id |-> 2, name |-> <<"B">>,
        rows |-> << <<Text(<<"a">>), Null>>, <<Null, Null>> >>],
       [id |-> 3, name |-> <<"C">>,
        rows |-> << <<Null, Text(<<"c">>)>> >>] >>

\* the keys of the per-sheet memory
SheetIndexes == 0..(Len(InitSheets) - 1)

\* the cells the user clicks
ClickCells == {<<0, 0>>, <<1, 1>>}

\* the texts the user leaves in an input after a keystroke
TypedTexts == {EmptyStr, <<"7">>, UndefinedStr}

\* the answers of get_editor_state
EditorStates == {[can_undo |-> TRUE, can_redo |-> FALSE]}

\* the answers of get_editor_state once something was undone
RedoStates == EditorStates \cup {[can_undo |-> FALSE, can_redo |-> TRUE]}

\* the operations the reducer is given: every kind, on the first sheet (its
\* second row is short), on the last sheet (one row) and on a sheet that is
\* not there, at indexes inside and outside the sheet
ReducerOps ==
    {Operation("SetCell", si, r, c, Num(<<"7">>)) :
        si \in {0, 3}, r \in {1, 2}, c \in {0, 2}}
    \cup {[Operation("Batch", si, -1, -1, Null) EXCEPT !.changes = ch] :
            si \in {0, 3},
            ch \in {<<[row |-> 0, col |-> 1, value |-> Bool(TrueStr)],
                      [row |-> 2, col |-> 0, value |-> Bool(TrueStr)]>>,
                    <<[row |-> 2, col |-> 0, value |-> Bool(TrueStr)]>>}}
    \cup {Operation(type, si, i, i, Null) :
            type \in {"AddRow", "DeleteRow", "AddColumn", "DeleteColumn"},
            si \in {0, 2, 3}, i \in {0, 1, 3}}
    \cup {[Operation(type, si, -1, -1, Null) EXCEPT !.name = <<"N">>] :
            type \in {"AddSheet", "DeleteSheet"}, si \in {0, 3}}

\* the values a loaded document holds in a cell: numbers, booleans, texts
\* (plain, with a leading zero, and texts that read as a number, as a
\* boolean or as nothing) and null
CellValues ==
    {Null, Num(<<"0">>), Num(<<"7">>), Num(<<"-", "5">>), Num(<<"1", "0">>),
     Bool(TrueStr), Bool(FalseStr),
     Text(<<"a">>), Text(<<"0", "9", "0", "8">>), Text(<<"7">>),
     Text(<<"T", "R", "U", "E">>), Text(<<" ">>), Text(EmptyStr)}

\* the texts the user types when the parser is exercised: one for every
\* rule, whitespace, malformed numbers and a number that is not finite
ParseTexts ==
    {EmptyStr, <<"0", "9", "0", "8">>, <<"0">>, <<"7">>, <<"-", "5">>,
     <<"T", "r", "u", "e">>, FalseStr, <<"a">>, <<" ">>, <<"7", "a">>,
     InfinityStr}

\* the queries the search box emits
Queries == {<<"a">>, <<" ", "7">>, << >>, <<" ">>, <<" ", " ">>}

\* the documents read_file returns: their sheets are new objects
OpenedSheets ==
    {<< [id |-> 11, name |-> <<"D">>, rows |-> << <<Text(<<"d">>)>> >>] >>}

\* the results the search sidebar lists
SearchResults ==
    {[sheet_index |-> 0, row |-> 0, col |-> 0],
     [sheet_index |-> 1, row |-> 0, col |-> 0],
     [sheet_index |-> 1, row |-> 1, col |-> 1]}

\* the sheet operations undo and redo return
SheetUndoResults ==
    {[Operation(type, si, -1, -1, Null) EXCEPT !.name = <<"N">>] :
        type \in {"AddSheet", "DeleteSheet"}, si \in {0, 2}}

\* the operations undo and redo return
UndoResults == {Operation("SetCell", 0, 0, 0, Num(<<"7">>))}

(***************************************************************************)
(* History.                                                                *)
(***************************************************************************)
NoBurst == [cell |-> NoKey, text |-> EmptyStr, n |-> 0]

\* the record of an event: what it was about; for a timer fire the queue it
\* found and the run of updates it ended; for a sheet change the sheet and
\* the selection it left, whether it returns to the sheet the sheet change
\* right before it left (round), and the selection that one left (want);
\* for a keystroke whether it is the first one typed into the cell (first)
\* and the value the mirror held for the cell before it (before); for an
\* answer to a structural call the call (call); for an answer to undo or
\* redo the operation it returned (op); for a click whether auto-scroll was
\* enabled when it happened (auto); for a click on a search result the
\* sheet of the result (sheet)
Ev(ev) ==
    [ev |-> ev, row |-> -1, col |-> -1, text |-> EmptyStr,
     queue |-> << >>, burst |-> NoBurst,
     origin |-> -1, osel |-> NoKey, round |-> FALSE, want |-> NoKey,
     first |-> FALSE, before |-> Null, call |-> Call("none"),
     op |-> Operation("none", -1, -1, -1, Null), auto |-> FALSE,
     sheet |-> -1]

\* the record of a keystroke that left str in the input of cell (row, col)
Keystroke(ev, row, col, str) ==
    [Ev(ev) EXCEPT !.row = row, !.col = col, !.text = str,
                   !.first = HasSheet(St) /\ ~BufHas(typed, <<currentSheet(St).id, row, col>>),
                   !.before = At(tableData(St), row, col)]

TypedKey(s, row, col) == <<currentSheet(s).id, row, col>>

NoteTyped(s, row, col, str) ==
    IF HasSheet(s)
    THEN [s EXCEPT !.typed = BufPut(@, TypedKey(s, row, col), str)]
    ELSE s

\* after a keystroke: the queue entry it scheduled is marked with the sheet
TagTyped(s, row, col, str) ==
    [s EXCEPT !.pendingChanges =
        [i \in 1..Len(@) |->
            IF @[i].row = row /\ @[i].col = col /\ @[i].value = str
            THEN [@[i] EXCEPT !.sheet = currentSheet(s).id]
            ELSE @[i]]]

\* after a row or a column was removed from the active sheet: where the
\* cell a queue entry was scheduled for is now (now), for the entries typed
\* into that sheet; no place once the cell is gone
Shifted(key, axis, index) ==
    IF key = <<-1, -1>> THEN key
    ELSE IF key[axis] = index THEN <<-1, -1>>
    ELSE IF key[axis] > index THEN [key EXCEPT ![axis] = @ - 1]
    ELSE key

TrackRemoval(s, axis, index) ==
    [s EXCEPT !.pendingChanges =
        [i \in 1..Len(@) |->
            IF HasSheet(s) /\ @[i].sheet = currentSheet(s).id
            THEN [@[i] EXCEPT !.now = Shifted(@, axis, index)]
            ELSE @[i]]]

\* the state an input other than a text update starts from: it ends the run
\* of updates under way
Idle == [St EXCEPT !.burst = NoBurst]

Spend(what) == budget' = [budget EXCEPT ![what] = @ - 1]

\* an event that dispatches calls waits while the calls in flight are as
\* many as the behaviour allows (budget.flights)
Room == Len(calls) < budget.flights

(***************************************************************************)
(* Actions: one event each.                                                *)
(***************************************************************************)
\* a click on a grid cell that is shown as text
GridClick(row, col) ==
    /\ fileData.open /\ GridShown(St) /\ focus = "none" /\ budget.clicks > 0
    /\ InGrid(St, row, col) /\ ~isEditing(St, row, col)
    /\ Commit(Settle(Idle, handleCellClick(Idle, row, col)))
    /\ last' = [Ev("click") EXCEPT !.row = row, !.col = col, !.auto = autoScroll]
    /\ Spend("clicks")

\* a click on a result in the search sidebar, which lists the results of the
\* last search until they are cleared
SearchResultClick(result) ==
    /\ fileData.open /\ focus = "none" /\ budget.clicks > 0
    /\ Commit(Settle(Idle, handleSearchResultClick(Idle, result)))
    /\ last' = [Ev("search-click") EXCEPT !.row = result.row, !.col = result.col,
                                          !.sheet = result.sheet_index]
    /\ Spend("clicks")

\* the user puts the caret into the input of the cell in edit mode
FocusCell ==
    /\ focus = "none" /\ CellInputRendered(St)
    /\ Commit([St EXCEPT !.focus = "cell"])
    /\ last' = Ev("focus")
    /\ UNCHANGED budget

\* a keystroke in the input of the cell in edit mode
HandleInput(str) ==
    /\ focus = "cell" /\ budget.typing > 0
    /\ LET row == editingCell[1]
           col == editingCell[2]
       IN  /\ Commit(TagTyped(Settle(St, handleInput(NoteTyped(St, row, col, str),
                                                     row, col, str)),
                           row, col, str))
           /\ last' = Keystroke("input", row, col, str)
    /\ Spend("typing")

\* the input of the cell in edit mode loses the focus
HandleBlur ==
    /\ focus = "cell" /\ Room
    /\ LET row == editingCell[1]
           col == editingCell[2]
       IN  /\ Commit(Settle(Idle, handleBlur([Idle EXCEPT !.focus = "none"], row, col,
                                           getDisplayValue(St, row, col))))
           /\ last' = [Ev("blur") EXCEPT !.row = row, !.col = col,
                                         !.text = getDisplayValue(St, row, col)]
    /\ UNCHANGED budget

\* the user puts the caret into the editor bar
FocusBar ==
    /\ focus = "none" /\ BarRendered(St)
    /\ Commit([St EXCEPT !.focus = "bar"])
    /\ last' = Ev("focus")
    /\ UNCHANGED budget

\* a keystroke in the editor bar: v-model assigns cellEditorValue
BarInput(str) ==
    /\ focus = "bar" /\ budget.typing > 0
    /\ LET row == selectedCell.row
           col == selectedCell.col
       IN  /\ Commit(TagTyped(Settle(St, SetBar(NoteTyped(St, row, col, str), str)),
                           row, col, str))
           /\ last' = Keystroke("bar", row, col, str)
    /\ Spend("typing")

\* Enter in the editor bar
BarEnter ==
    /\ focus = "bar" /\ budget.commands > 0 /\ Room
    /\ Commit(Settle(Idle, handleCellEditorSubmit(Idle)))
    /\ last' = [Ev("submit") EXCEPT !.row = selectedCell.row,
                   !.col = selectedCell.col, !.text = cellEditorValue]
    /\ Spend("commands")

\* the editor bar loses the focus
BarBlur ==
    /\ focus = "bar" /\ Room
    /\ Commit(Settle(Idle, handleCellEditorSubmit([Idle EXCEPT !.focus = "none"])))
    /\ last' = [Ev("submit") EXCEPT !.row = selectedCell.row,
                   !.col = selectedCell.col, !.text = cellEditorValue]
    /\ UNCHANGED budget

\* the sheet selector
SheetChange(index) ==
    /\ fileData.open /\ focus = "none" /\ budget.sheets > 0
    /\ index \in 0..(Len(fileData.sheets) - 1) /\ index # currentSheetIndex
    /\ Commit(Settle(Idle, handleSheetChange(Idle, index)))
    /\ last' = [Ev("sheet") EXCEPT
                   !.origin = currentSheetIndex,
                   !.osel = getKey(selectedCell.row, selectedCell.col),
                   !.round = /\ last.ev = "sheet" /\ last.origin = index
                             /\ last.osel # NoKey,
                   !.want = last.osel]
    /\ Spend("sheets")

\* the delete-sheet button
DeleteSheet ==
    /\ fileData.open /\ focus = "none" /\ budget.commands > 0 /\ Room
    /\ Commit(Settle(Idle, handleDeleteSheet(Idle)))
    /\ last' = Ev("delete-sheet")
    /\ Spend("commands")

\* the undo button (disabled unless canUndo)
Undo ==
    /\ fileData.open /\ focus = "none" /\ canUndo /\ budget.commands > 0 /\ Room
    /\ Commit(Settle(Idle, handleUndo(Idle)))
    /\ last' = Ev("undo")
    /\ Spend("commands")

\* the debounce timer fires
Fire(t) ==
    /\ t \in timers /\ Room
    /\ Commit([Settle(St, debouncedSave([St EXCEPT !.timers = @ \ {t}]))
                  EXCEPT !.burst = NoBurst])
    /\ last' = [Ev("fire") EXCEPT !.queue = pendingChanges, !.burst = burst]
    /\ UNCHANGED budget

\* the backend answers call i
Answered(s, i) == [s EXCEPT !.calls = RemoveAt(@, i - 1)]

\* the backend carried out a call of the given kind: an edit can be undone
\* and leaves nothing to redo, an undo leaves its operation to redo and a
\* redo leaves it to undo, a load starts with nothing to undo or redo.  How
\* many operations the history holds is not kept: after an undo there may
\* or may not be another operation to undo (more), and likewise for redo.
Processed(s, kind, more) ==
    [s EXCEPT !.backend =
        IF kind \in Mutations THEN [can_undo |-> TRUE, can_redo |-> FALSE]
        ELSE IF kind = "undo" /\ @.can_undo THEN [can_undo |-> more, can_redo |-> TRUE]
        ELSE IF kind = "redo" /\ @.can_redo THEN [can_undo |-> TRUE, can_redo |-> more]
        ELSE IF kind = "read_file" THEN NoHistory
        ELSE @]

SetCellOk(i) ==
    /\ i \in 1..Len(calls) /\ calls[i].kind = "set_cell"
    /\ calls[i].handler # "unmounted"
    /\ Commit(Settle(St, setCellDone(Answered(Processed(St, calls[i].kind, FALSE), i), calls[i])))
    /\ last' = [Ev("set_cell ok") EXCEPT !.row = calls[i].row,
                   !.col = calls[i].col, !.text = calls[i].value]
    /\ UNCHANGED budget

SetCellFailWritesParsed(i) ==
    /\ i \in 1..Len(calls) /\ calls[i].kind = "set_cell"
    /\ calls[i].handler # "unmounted"
    /\ Commit(Settle(St, finally(WithRows(Answered(St, i),
                  SetAt(tableData(St), calls[i].row, calls[i].col,
                        calls[i].newValue)))))
    /\ last' = [Ev("set_cell failed") EXCEPT !.row = calls[i].row,
                   !.col = calls[i].col, !.text = calls[i].value]
    /\ UNCHANGED budget

SetCellFail(i) ==
    /\ i \in 1..Len(calls) /\ calls[i].kind = "set_cell"
    /\ calls[i].handler # "unmounted"
    /\ Commit(Settle(St, finally(Answered(St, i))))
    /\ last' = [Ev("set_cell failed") EXCEPT !.row = calls[i].row,
                   !.col = calls[i].col, !.text = calls[i].value]
    /\ UNCHANGED budget

EditorStateOk(i, state) ==
    /\ i \in 1..Len(calls) /\ calls[i].kind = "get_editor_state"
    /\ calls[i].handler # "unmounted"
    /\ Commit(Settle(St, IF calls[i].handler = "open"
                         THEN openDone(Answered(St, i), state)
                         ELSE editorStateDone(Answered(St, i), state)))
    /\ last' = Ev("editor state")
    /\ UNCHANGED budget

EditorStateFail(i) ==
    /\ i \in 1..Len(calls) /\ calls[i].kind = "get_editor_state"
    /\ calls[i].handler # "unmounted"
    /\ Commit(Settle(St, IF calls[i].handler = "open"
                         THEN finallyOpen(Answered(St, i))
                         ELSE finally(Answered(St, i))))
    /\ last' = Ev("editor state failed")
    /\ UNCHANGED budget

DeleteSheetOk(i) ==
    /\ i \in 1..Len(calls) /\ calls[i].kind = "delete_sheet"
    /\ Commit(Settle(St, structuralDone(Answered(Processed(St, calls[i].kind, FALSE), i))))
    /\ last' = [Ev("delete_sheet ok") EXCEPT !.call = calls[i]]
    /\ UNCHANGED budget

DeleteSheetFail(i) ==
    /\ i \in 1..Len(calls) /\ calls[i].kind = "delete_sheet"
    /\ Commit(Settle(St, finally(Answered(St, i))))
    /\ last' = Ev("delete_sheet failed")
    /\ UNCHANGED budget

UndoOk(i, op) ==
    /\ i \in 1..Len(calls) /\ calls[i].kind = "undo"
    /\ \E more \in BOOLEAN :
           Commit(Settle(St, undoDone(Answered(Processed(St, calls[i].kind, more), i), op)))
    /\ last' = [Ev("undo ok") EXCEPT !.row = op.row, !.col = op.col, !.op = op]
    /\ UNCHANGED budget

UndoFail(i) ==
    /\ i \in 1..Len(calls) /\ calls[i].kind = "undo"
    /\ Commit(Settle(St, finally(Answered(St, i))))
    /\ last' = Ev("undo failed")
    /\ UNCHANGED budget

\* Enter or the search button in the search box, and the backend's answers
Search(query) ==
    /\ fileData.open /\ focus = "none" /\ budget.commands > 0 /\ Room
    /\ Commit(Settle(Idle, SearchBox_handleSearch(Idle, query)))
    /\ last' = [Ev("search") EXCEPT !.text = query]
    /\ Spend("commands")

SearchOk(i) ==
    /\ i \in 1..Len(calls) /\ calls[i].kind = "search"
    /\ Commit(Settle(St, searchDone(Answered(St, i))))
    /\ last' = Ev("search ok")
    /\ UNCHANGED budget

SearchFail(i) ==
    /\ i \in 1..Len(calls) /\ calls[i].kind = "search"
    /\ Commit(Settle(St, searchDone(Answered(St, i))))
    /\ last' = Ev("search failed")
    /\ UNCHANGED budget

\* the user picks a file in the dialog of the open button, and the backend
\* answers
OpenFile ==
    /\ focus = "none" /\ budget.commands > 0 /\ Room
    /\ Commit(Settle(Idle, handleOpenFile(Idle)))
    /\ last' = Ev("open-file")
    /\ Spend("commands")

ReadFileOk(i, sheets) ==
    /\ i \in 1..Len(calls) /\ calls[i].kind = "read_file"
    /\ Commit(Settle(St, readFileDone(Answered(Processed(St, calls[i].kind, FALSE), i), sheets)))
    /\ last' = Ev("read_file ok")
    /\ UNCHANGED budget

ReadFileFail(i) ==
    /\ i \in 1..Len(calls) /\ calls[i].kind = "read_file"
    /\ Commit(Settle(St, finallyOpen(Answered(St, i))))
    /\ last' = Ev("read_file failed")
    /\ UNCHANGED budget

\* the back button: the document is closed and the view unmounted
Back ==
    /\ fileData.open /\ focus = "none" /\ budget.commands > 0
    /\ Commit(unmount(Settle(Idle, handleBack(Idle))))
    /\ last' = Ev("back")
    /\ Spend("commands")

\* the home view loads a document into the store and routes to the table
\* view, which is mounted anew
HomeOpen(sheets) ==
    /\ ~fileData.open
    /\ Commit(Settle(St, [St EXCEPT !.fileData = [open |-> TRUE, sheets |-> sheets],
                                     !.backend = NoHistory]))
    /\ last' = Ev("home-open")
    /\ UNCHANGED budget

\* the debounce timer of an unmounted view fires.  Its computed fileData
\* either follows the store (live) or, stopped with the view, keeps what it
\* held when the view was rendered last, which is no document.
UnmountedFire(k, live) ==
    /\ k \in 1..Len(unmounted) /\ Room
    /\ Commit(unmountedSave([St EXCEPT !.unmounted = RemoveAt(@, k - 1)],
                            unmounted[k],
                            IF live THEN fileData ELSE NoDocument))
    /\ last' = [Ev("unmounted fire") EXCEPT !.queue = unmounted[k].pendingChanges]
    /\ UNCHANGED budget

\* the backend answers a call of an unmounted view: after set_cell succeeded
\* the continuation goes on to updateEditorState; whatever else it assigns
\* are the refs of the unmounted view
UnmountedSetCellOk(i) ==
    /\ i \in 1..Len(calls) /\ calls[i].kind = "set_cell"
    /\ calls[i].handler = "unmounted"
    /\ Commit(invoke(Answered(Processed(St, calls[i].kind, FALSE), i),
                     [Call("get_editor_state") EXCEPT !.handler = "unmounted"]))
    /\ last' = [Ev("unmounted set_cell ok") EXCEPT !.row = calls[i].row,
                   !.col = calls[i].col, !.text = calls[i].value]
    /\ UNCHANGED budget

UnmountedAnswer(i) ==
    /\ i \in 1..Len(calls) /\ calls[i].handler = "unmounted"
    /\ Commit(Answered(St, i))
    /\ last' = Ev("unmounted answer")
    /\ UNCHANGED budget

\* the redo button (disabled unless canRedo) and the answer to its call
Redo ==
    /\ fileData.open /\ focus = "none" /\ canRedo /\ budget.commands > 0 /\ Room
    /\ Commit(Settle(Idle, handleRedo(Idle)))
    /\ last' = Ev("redo")
    /\ Spend("commands")

RedoOk(i, op) ==
    /\ i \in 1..Len(calls) /\ calls[i].kind = "redo"
    /\ \E more \in BOOLEAN :
           Commit(Settle(St, undoDone(Answered(Processed(St, calls[i].kind, more), i), op)))
    /\ last' = [Ev("redo ok") EXCEPT !.row = op.row, !.col = op.col, !.op = op]
    /\ UNCHANGED budget

\* the add-row and add-column buttons of the toolbar, the delete buttons of
\* the row numbers and of the column headers, the add-sheet button
AddRow ==
    /\ fileData.open /\ focus = "none" /\ budget.commands > 0 /\ Room
    /\ Commit(Settle(Idle, handleAddRow(Idle)))
    /\ last' = Ev("add-row")
    /\ Spend("commands")

DeleteRow(index) ==
    /\ fileData.open /\ GridShown(St) /\ focus = "none" /\ budget.commands > 0 /\ Room
    /\ RowExists(tableData(St), index)
    /\ Commit(TrackRemoval(Settle(Idle, handleDeleteRow(Idle, index)), 1, index))
    /\ last' = [Ev("delete-row") EXCEPT !.row = index]
    /\ Spend("commands")

AddColumn ==
    /\ fileData.open /\ focus = "none" /\ budget.commands > 0 /\ Room
    /\ Commit(Settle(Idle, handleAddColumn(Idle)))
    /\ last' = Ev("add-column")
    /\ Spend("commands")

DeleteColumn(index) ==
    /\ fileData.open /\ GridShown(St) /\ focus = "none" /\ budget.commands > 0 /\ Room
    /\ index >= 0 /\ index < columns(St)
    /\ Commit(TrackRemoval(Settle(Idle, handleDeleteColumn(Idle, index)), 2, index))
    /\ last' = [Ev("delete-column") EXCEPT !.col = index]
    /\ Spend("commands")

AddSheet ==
    /\ fileData.open /\ focus = "none" /\ budget.commands > 0 /\ Room
    /\ Commit(Settle(Idle, handleAddSheet(Idle)))
    /\ last' = Ev("add-sheet")
    /\ Spend("commands")

\* the backend answers a structural call
StructuralCalls == {"add_row", "delete_row", "add_column", "delete_column"}

StructuralOk(i) ==
    /\ i \in 1..Len(calls) /\ calls[i].kind \in StructuralCalls
    /\ Commit(Settle(St, structuralDone(Answered(Processed(St, calls[i].kind, FALSE), i))))
    /\ last' = [Ev("structural ok") EXCEPT !.call = calls[i]]
    /\ UNCHANGED budget

StructuralFail(i) ==
    /\ i \in 1..Len(calls) /\ calls[i].kind \in StructuralCalls
    /\ Commit(Settle(St, finally(Answered(St, i))))
    /\ last' = Ev("structural failed")
    /\ UNCHANGED budget

AddSheetOk(i) ==
    /\ i \in 1..Len(calls) /\ calls[i].kind = "add_sheet"
    /\ Commit(Settle(St, addSheetDone(Answered(Processed(St, calls[i].kind, FALSE), i), calls[i])))
    /\ last' = [Ev("add_sheet ok") EXCEPT !.call = calls[i]]
    /\ UNCHANGED budget

AddSheetFail(i) ==
    /\ i \in 1..Len(calls) /\ calls[i].kind = "add_sheet"
    /\ Commit(Settle(St, finally(Answered(St, i))))
    /\ last' = Ev("add_sheet failed")
    /\ UNCHANGED budget

(***************************************************************************)
(* Specifications.                                                         *)
(***************************************************************************)
\* the state after the table view was mounted on a loaded document
InitView ==
    /\ fileData = [open |-> TRUE, sheets |-> InitSheets]
    /\ currentSheetIndex = 0
    /\ selectedCell = NoCell
    /\ sheetSelectedCells = [i \in SheetIndexes |-> NoCell]
    /\ cellEditorValue = EmptyStr
    /\ autoScroll = FALSE
    /\ debounceTimer = 0
    /\ timers = {}
    /\ pendingChanges = << >>
    /\ hasChanges = FALSE
    /\ isLoading = FALSE
    /\ isFileLoading = FALSE
    /\ isSearching = FALSE
    /\ canUndo = FALSE
    /\ canRedo = FALSE
    /\ editingValue = NoBuf
    /\ editingCell = NoKey
    /\ isManualClick = FALSE
    /\ focus = "none"
    /\ calls = << >>
    /\ unmounted = << >>
    /\ backend = NoHistory
    /\ typed = NoBuf
    /\ lastSent = NoBuf
    /\ sent = << >>
    /\ scrolled = NoScroll
    /\ last = Ev("init")
    /\ burst = NoBurst

\* editing one sheet: clicks, keystrokes in the grid and in the editor bar,
\* commits, the debounce timer and the backend's answers
Init ==
    /\ InitView
    /\ budget = [typing |-> MaxTyping, clicks |-> MaxClicks, sheets |-> 0,
                 commands |-> 1,
                 flights |-> MaxInFlight]

Responses ==
    \/ \E i \in 1..Len(calls) : SetCellOk(i)
    \/ \E i \in 1..Len(calls) : SetCellFail(i)
    \/ \E i \in 1..Len(calls), state \in EditorStates : EditorStateOk(i, state)
    \/ \E i \in 1..Len(calls) : EditorStateFail(i)

Editing ==
    \/ \E cell \in ClickCells : GridClick(cell[1], cell[2])
    \/ FocusCell
    \/ \E str \in TypedTexts : HandleInput(str)
    \/ HandleBlur
    \/ FocusBar
    \/ \E str \in TypedTexts : BarInput(str)
    \/ BarEnter
    \/ BarBlur
    \/ \E t \in timers : Fire(t)

Next == Editing \/ Responses

Spec == Init /\ [][Next]_vars

\* editing and moving between sheets: clicks, keystrokes in the grid, sheet
\* changes, the debounce timer and the backend's answers
InitSheetsSpec ==
    /\ InitView
    /\ budget = [typing |-> 1, clicks |-> MaxClicks,
                 sheets |-> MaxSheetChanges, commands |-> 0,
                 flights |-> MaxInFlight]

NextSheets ==
    \/ \E cell \in ClickCells : GridClick(cell[1], cell[2])
    \/ FocusCell
    \/ \E str \in TypedTexts : HandleInput(str)
    \/ HandleBlur
    \/ \E index \in SheetIndexes : SheetChange(index)
    \/ \E t \in timers : Fire(t)
    \/ \E i \in 1..Len(calls) : SetCellOk(i)
    \/ \E i \in 1..Len(calls), state \in EditorStates : EditorStateOk(i, state)

SpecSheets == InitSheetsSpec /\ [][NextSheets]_vars

\* the per-sheet selection memory: clicks, sheet changes, sheet deletion,
\* the debounce timer and the backend's answers
InitMemory ==
    /\ InitView
    /\ budget = [typing |-> 0, clicks |-> 1, sheets |-> MaxRoundTrips,
                 commands |-> 1,
                 flights |-> MaxInFlight]

NextMemory ==
    \/ \E cell \in ClickCells : GridClick(cell[1], cell[2])
    \/ \E index \in SheetIndexes : SheetChange(index)
    \/ DeleteSheet
    \/ \E t \in timers : Fire(t)
    \/ \E i \in 1..Len(calls) : SetCellOk(i)
    \/ \E i \in 1..Len(calls), state \in EditorStates : EditorStateOk(i, state)
    \/ \E i \in 1..Len(calls) : DeleteSheetOk(i)
    \/ \E i \in 1..Len(calls) : DeleteSheetFail(i)

SpecMemory == InitMemory /\ [][NextMemory]_vars

\* the debounce: one click, keystrokes in the grid and in the editor bar,
\* the debounce timer and the backend's answers
InitBurst ==
    /\ InitView
    /\ budget = [typing |-> MaxBurst, clicks |-> 1, sheets |-> 0, commands |-> 0,
                 flights |-> MaxInFlight]

NextBurst ==
    \/ \E cell \in ClickCells : GridClick(cell[1], cell[2])
    \/ FocusCell
    \/ \E str \in TypedTexts : HandleInput(str)
    \/ HandleBlur
    \/ FocusBar
    \/ \E str \in TypedTexts : BarInput(str)
    \/ BarBlur
    \/ \E t \in timers : Fire(t)
    \/ \E i \in 1..Len(calls) : SetCellOk(i)
    \/ \E i \in 1..Len(calls), state \in EditorStates : EditorStateOk(i, state)

SpecBurst == InitBurst /\ [][NextBurst]_vars

\* undo while editing: one click, keystrokes in the grid, the undo button,
\* the debounce timer and the backend's answers
InitUndo ==
    /\ InitView
    /\ budget = [typing |-> MaxUndoTyping, clicks |-> 1, sheets |-> 0,
                 commands |-> 1,
                 flights |-> MaxInFlight]

NextUndo ==
    \/ \E cell \in ClickCells : GridClick(cell[1], cell[2])
    \/ FocusCell
    \/ \E str \in TypedTexts : HandleInput(str)
    \/ HandleBlur
    \/ Undo
    \/ \E t \in timers : Fire(t)
    \/ \E i \in 1..Len(calls) : SetCellOk(i)
    \/ \E i \in 1..Len(calls), state \in EditorStates : EditorStateOk(i, state)
    \/ \E i \in 1..Len(calls), op \in UndoResults : UndoOk(i, op)
    \/ \E i \in 1..Len(calls) : UndoFail(i)

SpecUndo == InitUndo /\ [][NextUndo]_vars

\* structural editing: rows, columns and sheets added and deleted, one sheet
\* change, and the backend's answers, every call succeeding
InitStructure ==
    /\ InitView
    /\ budget = [typing |-> 0, clicks |-> 0, sheets |-> 1, commands |-> MaxCommands,
                 flights |-> MaxInFlight]

NextStructure ==
    \/ AddRow
    \/ \E index \in 0..(Len(tableData(St)) - 1) : DeleteRow(index)
    \/ AddColumn
    \/ \E index \in 0..(columns(St) - 1) : DeleteColumn(index)
    \/ AddSheet
    \/ DeleteSheet
    \/ \E index \in 0..(Len(fileData.sheets) - 1) : SheetChange(index)
    \/ \E i \in 1..Len(calls) : StructuralOk(i)
    \/ \E i \in 1..Len(calls) : AddSheetOk(i)
    \/ \E i \in 1..Len(calls) : DeleteSheetOk(i)
    \/ \E i \in 1..Len(calls), state \in EditorStates : EditorStateOk(i, state)

SpecStructure == InitStructure /\ [][NextStructure]_vars

\* every mutating command: one click, keystrokes in the grid, the structural
\* buttons, undo and redo, the debounce timer and the backend's answers, the
\* editor state answering either way
InitCommands ==
    /\ InitView
    /\ budget = [typing |-> MaxUndoTyping, clicks |-> 1, sheets |-> 0,
                 commands |-> MaxCommands,
                 flights |-> MaxInFlight]

NextCommands ==
    \/ \E cell \in ClickCells : GridClick(cell[1], cell[2])
    \/ FocusCell
    \/ \E str \in TypedTexts : HandleInput(str)
    \/ \E t \in timers : Fire(t)
    \/ AddRow
    \/ \E index \in 0..(Len(tableData(St)) - 1) : DeleteRow(index)
    \/ AddColumn
    \/ \E index \in 0..(columns(St) - 1) : DeleteColumn(index)
    \/ AddSheet
    \/ DeleteSheet
    \/ Undo
    \/ Redo
    \/ \E i \in 1..Len(calls) : SetCellOk(i)
    \/ \E i \in 1..Len(calls) : StructuralOk(i)
    \/ \E i \in 1..Len(calls) : AddSheetOk(i)
    \/ \E i \in 1..Len(calls) : DeleteSheetOk(i)
    \/ \E i \in 1..Len(calls), op \in UndoResults : UndoOk(i, op)
    \/ \E i \in 1..Len(calls), op \in UndoResults : RedoOk(i, op)
    \/ \E i \in 1..Len(calls) : UndoFail(i)
    \/ \E i \in 1..Len(calls), state \in RedoStates : EditorStateOk(i, state)
    \/ \E i \in 1..Len(calls) : EditorStateFail(i)

SpecCommands == InitCommands /\ [][NextCommands]_vars

\* the reducer: a document that was edited and saved, one click, and undo
\* answered with any operation
InitReducer ==
    /\ fileData = [open |-> TRUE, sheets |-> InitSheets]
    /\ currentSheetIndex \in {0, 2}
    /\ selectedCell = NoCell
    /\ sheetSelectedCells = [i \in SheetIndexes |-> NoCell]
    /\ cellEditorValue = EmptyStr
    /\ autoScroll = FALSE
    /\ debounceTimer = 0
    /\ timers = {}
    /\ pendingChanges = << >>
    /\ hasChanges = FALSE
    /\ isLoading = FALSE
    /\ isFileLoading = FALSE
    /\ isSearching = FALSE
    /\ canUndo = TRUE
    /\ canRedo = FALSE
    /\ editingValue = NoBuf
    /\ editingCell = NoKey
    /\ isManualClick = FALSE
    /\ focus = "none"
    /\ calls = << >>
    /\ unmounted = << >>
    /\ backend = NoHistory
    /\ typed = NoBuf
    /\ lastSent = NoBuf
    /\ sent = << >>
    /\ scrolled = NoScroll
    /\ last = Ev("init")
    /\ burst = NoBurst
    /\ budget = [typing |-> 0, clicks |-> 1, sheets |-> 0, commands |-> MaxReplays,
                 flights |-> MaxInFlight]

NextReducer ==
    \/ GridClick(0, 0)
    \/ Undo
    \/ \E i \in 1..Len(calls), op \in ReducerOps : UndoOk(i, op)
    \/ \E i \in 1..Len(calls), state \in EditorStates : EditorStateOk(i, state)

SpecReducer == InitReducer /\ [][NextReducer]_vars

\* navigation: grid clicks, clicks on search results and sheet changes
InitScroll ==
    /\ InitView
    /\ budget = [typing |-> 0, clicks |-> MaxClicks,
                 sheets |-> MaxSheetChanges, commands |-> 0,
                 flights |-> MaxInFlight]

NextScroll ==
    \/ \E cell \in ClickCells : GridClick(cell[1], cell[2])
    \/ \E result \in SearchResults : SearchResultClick(result)
    \/ \E index \in SheetIndexes : SheetChange(index)

SpecScroll == InitScroll /\ [][NextScroll]_vars

\* search while editing: clicks, keystrokes in the grid, clicks on search
\* results, the debounce timer and the backend's answers
InitSearch ==
    /\ InitView
    /\ budget = [typing |-> 1, clicks |-> MaxClicks, sheets |-> 0, commands |-> 0,
                 flights |-> MaxInFlight]

NextSearch ==
    \/ \E cell \in ClickCells : GridClick(cell[1], cell[2])
    \/ FocusCell
    \/ \E str \in TypedTexts : HandleInput(str)
    \/ HandleBlur
    \/ \E result \in SearchResults : SearchResultClick(result)
    \/ \E t \in timers : Fire(t)
    \/ \E i \in 1..Len(calls) : SetCellOk(i)
    \/ \E i \in 1..Len(calls), state \in EditorStates : EditorStateOk(i, state)

SpecSearch == InitSearch /\ [][NextSearch]_vars

\* value coercion: a document whose first cell holds any value, clicks on
\* the first row, the debounce timer and the backend's answers
InitValues ==
    /\ \E v \in CellValues :
          fileData = [open |-> TRUE,
                      sheets |-> [InitSheets EXCEPT ![1].rows[1][1] = v]]
    /\ currentSheetIndex = 0
    /\ selectedCell = NoCell
    /\ sheetSelectedCells = [i \in SheetIndexes |-> NoCell]
    /\ cellEditorValue = EmptyStr
    /\ autoScroll = FALSE
    /\ debounceTimer = 0
    /\ timers = {}
    /\ pendingChanges = << >>
    /\ hasChanges = FALSE
    /\ isLoading = FALSE
    /\ isFileLoading = FALSE
    /\ isSearching = FALSE
    /\ canUndo = FALSE
    /\ canRedo = FALSE
    /\ editingValue = NoBuf
    /\ editingCell = NoKey
    /\ isManualClick = FALSE
    /\ focus = "none"
    /\ calls = << >>
    /\ unmounted = << >>
    /\ backend = NoHistory
    /\ typed = NoBuf
    /\ lastSent = NoBuf
    /\ sent = << >>
    /\ scrolled = NoScroll
    /\ last = Ev("init")
    /\ burst = NoBurst
    /\ budget = [typing |-> 0, clicks |-> MaxClicks, sheets |-> 0, commands |-> 0,
                 flights |-> MaxInFlight]

NextValues ==
    \/ \E col \in {0, 1} : GridClick(0, col)
    \/ \E t \in timers : Fire(t)
    \/ \E i \in 1..Len(calls) : SetCellOk(i)
    \/ \E i \in 1..Len(calls), state \in EditorStates : EditorStateOk(i, state)

SpecValues == InitValues /\ [][NextValues]_vars

\* the parser: one click, one keystroke in the grid with any of the texts,
\* the debounce timer and the backend's answers
InitParse ==
    /\ InitView
    /\ budget = [typing |-> 1, clicks |-> 1, sheets |-> 0, commands |-> 0,
                 flights |-> MaxInFlight]

NextParse ==
    \/ \E cell \in ClickCells : GridClick(cell[1], cell[2])
    \/ FocusCell
    \/ \E str \in ParseTexts : HandleInput(str)
    \/ HandleBlur
    \/ \E t \in timers : Fire(t)
    \/ \E i \in 1..Len(calls) : SetCellOk(i)
    \/ \E i \in 1..Len(calls), state \in EditorStates : EditorStateOk(i, state)

SpecParse == InitParse /\ [][NextParse]_vars

\* the loading flags: commands that raise a flag, two calls in flight at a
\* time, every call answered or failed
InitLoading ==
    /\ InitView
    /\ budget = [typing |-> 0, clicks |-> 0, sheets |-> 0,
                 commands |-> MaxCommands, flights |-> MaxConcurrent]

NextLoading ==
    \/ AddRow
    \/ DeleteColumn(0)
    \/ DeleteSheet
    \/ \E query \in Queries : Search(query)
    \/ OpenFile
    \/ \E i \in 1..Len(calls) : StructuralOk(i)
    \/ \E i \in 1..Len(calls) : StructuralFail(i)
    \/ \E i \in 1..Len(calls) : DeleteSheetOk(i)
    \/ \E i \in 1..Len(calls) : DeleteSheetFail(i)
    \/ \E i \in 1..Len(calls) : SearchOk(i)
    \/ \E i \in 1..Len(calls) : SearchFail(i)
    \/ \E i \in 1..Len(calls), sheets \in OpenedSheets : ReadFileOk(i, sheets)
    \/ \E i \in 1..Len(calls) : ReadFileFail(i)
    \/ \E i \in 1..Len(calls), state \in EditorStates : EditorStateOk(i, state)
    \/ \E i \in 1..Len(calls) : EditorStateFail(i)

SpecLoading == InitLoading /\ [][NextLoading]_vars

\* closing the document and opening another one: clicks, keystrokes in the
\* grid, the back button, the home view's open, the debounce timers and the
\* backend's answers
InitClose ==
    /\ InitView
    /\ budget = [typing |-> 1, clicks |-> MaxClicks, sheets |-> 0,
                 commands |-> MaxCommands, flights |-> MaxInFlight]

NextClose ==
    \/ \E cell \in ClickCells : GridClick(cell[1], cell[2])
    \/ FocusCell
    \/ \E str \in TypedTexts : HandleInput(str)
    \/ HandleBlur
    \/ \E t \in timers : Fire(t)
    \/ \E i \in 1..Len(calls) : SetCellOk(i)
    \/ \E i \in 1..Len(calls), state \in EditorStates : EditorStateOk(i, state)
    \/ Back
    \/ \E sheets \in OpenedSheets : HomeOpen(sheets)
    \/ \E k \in 1..Len(unmounted), live \in BOOLEAN : UnmountedFire(k, live)
    \/ \E i \in 1..Len(calls) : UnmountedSetCellOk(i)
    \/ \E i \in 1..Len(calls) : UnmountedAnswer(i)

SpecClose == InitClose /\ [][NextClose]_vars

\* editing and removing rows and columns: clicks, keystrokes in the grid,
\* the add and delete buttons, the debounce timer and the backend's answers
InitShift ==
    /\ InitView
    /\ budget = [typing |-> 1, clicks |-> 1, sheets |-> 0, commands |-> 1,
                 flights |-> MaxInFlight]

NextShift ==
    \/ \E cell \in ClickCells : GridClick(cell[1], cell[2])
    \/ FocusCell
    \/ \E str \in TypedTexts : HandleInput(str)
    \/ HandleBlur
    \/ \E t \in timers : Fire(t)
    \/ AddRow
    \/ \E index \in 0..(Len(tableData(St)) - 1) : DeleteRow(index)
    \/ \E index \in 0..(columns(St) - 1) : DeleteColumn(index)
    \/ \E i \in 1..Len(calls) : SetCellOk(i)
    \/ \E i \in 1..Len(calls) : StructuralOk(i)
    \/ \E i \in 1..Len(calls), state \in EditorStates : EditorStateOk(i, state)

SpecShift == InitShift /\ [][NextShift]_vars

\* adding, deleting and changing sheets: the sheet buttons, the sheet
\* selector, clicks on search results, undo, and the backend's answers, with
\* up to MaxConcurrent calls in flight
InitSheetOps ==
    /\ InitView
    /\ budget = [typing |-> 0, clicks |-> 1, sheets |-> 1,
                 commands |-> MaxCommands, flights |-> MaxConcurrent]

NextSheetOps ==
    \/ \E cell \in ClickCells : GridClick(cell[1], cell[2])
    \/ \E result \in SearchResults : SearchResultClick(result)
    \/ \E index \in SheetIndexes : SheetChange(index)
    \/ AddSheet
    \/ DeleteSheet
    \/ Undo
    \/ \E t \in timers : Fire(t)
    \/ \E i \in 1..Len(calls) : SetCellOk(i)
    \/ \E i \in 1..Len(calls) : AddSheetOk(i)
    \/ \E i \in 1..Len(calls) : DeleteSheetOk(i)
    \/ \E i \in 1..Len(calls), op \in SheetUndoResults : UndoOk(i, op)
    \/ \E i \in 1..Len(calls), state \in EditorStates : EditorStateOk(i, state)

SpecSheetOps == InitSheetOps /\ [][NextSheetOps]_vars

\* loading another document into the live view: clicks, keystrokes in the
\* grid, the sheet selector, the open button, the debounce timer and the
\* backend's answers
InitReload ==
    /\ InitView
    /\ budget = [typing |-> 1, clicks |-> MaxClicks, sheets |-> 1,
                 commands |-> 1, flights |-> MaxInFlight]

NextReload ==
    \/ \E cell \in ClickCells : GridClick(cell[1], cell[2])
    \/ FocusCell
    \/ \E str \in TypedTexts : HandleInput(str)
    \/ HandleBlur
    \/ \E index \in SheetIndexes : SheetChange(index)
    \/ OpenFile
    \/ \E t \in timers : Fire(t)
    \/ \E i \in 1..Len(calls) : SetCellOk(i)
    \/ \E i \in 1..Len(calls), sheets \in OpenedSheets : ReadFileOk(i, sheets)
    \/ \E i \in 1..Len(calls), state \in EditorStates : EditorStateOk(i, state)

SpecReload == InitReload /\ [][NextReload]_vars

(***************************************************************************)
(* Claims.                                                                 *)
(***************************************************************************)
\* the key of the selected cell
SelectionKey == getKey(selectedCell.row, selectedCell.col)

\* what the grid shows: the text of every cell it renders
GridKeys == {key \in (0..2) \X (0..2) : InGrid(St, key[1], key[2])}

Displayed == [key \in GridKeys |-> getDisplayValue(St, key[1], key[2])]

\* C1: the completion of a set_cell call, successful or failed, changes no
\* cell of the document mirror, adds nothing to the Pending-Changes Queue
\* and changes no displayed cell text.
C1_SetCellCompletionFrame ==
    [][last'.ev \in {"set_cell ok", "set_cell failed"} =>
          /\ fileData' = fileData
          /\ pendingChanges' = pendingChanges
          /\ Displayed' = Displayed]_vars

\* C2: when the user typed in a cell and the sheet was changed before the
\* debounce timer fired, the timer's fire dispatches no set_cell call for the
\* typed change: a queued change typed on another sheet than the active one
\* is not sent.
C2_NoCallAfterSheetSwitch ==
    last.ev = "fire" =>
        \A i \in 1..Len(last.queue) :
            \/ last.queue[i].sheet \in {-1, currentSheet(St).id}
            \/ ~\E j \in 1..Len(sent) :
                  /\ sent[j].row = last.queue[i].row
                  /\ sent[j].col = last.queue[i].col

\* C3: N >= 1 text updates scheduled in a row for one cell (by
\* handleCellEditing or by the editor-bar watcher), with no timer fire and no
\* other input in between, dispatch nothing themselves, and the fire that
\* ends the run dispatches exactly one set_cell call for the cell, carrying
\* the text of the last update.
BurstCalls ==
    {j \in 1..Len(sent) : getKey(sent[j].row, sent[j].col) = last.burst.cell}

C3_DebounceCoalescing ==
    /\ last.ev \in {"input", "bar"} => sent = << >>
    /\ (last.ev = "fire" /\ last.burst.n >= 1) =>
           /\ Cardinality(BurstCalls) = 1
           /\ \A j \in BurstCalls : sent[j].value = last.burst.text

\* a fire that ended a run of at least five updates, the last of which
\* changed the text, and dispatched the call
C3_Witness ==
    /\ last.ev = "fire" /\ last.burst.n >= 5
    /\ Len(last.queue) = 1
    /\ \E j \in BurstCalls : sent[j].value = UndefinedStr

\* C4: once no timer is armed, no call is in flight and nothing is queued
\* (every call having succeeded), every cell the mirror of the active sheet
\* holds and the user typed into formats to the text typed last into it, and
\* the set_cell call sent last for it carries that text parsed.
Quiet == timers = {} /\ calls = << >> /\ pendingChanges = << >>

TypedHere == {k \in DOMAIN typed : HasSheet(St) /\ k[1] = currentSheet(St).id}

C4_LastTextWins ==
    Quiet =>
        \A k \in TypedHere :
            At(tableData(St), k[2], k[3]) # Undef =>
                /\ getCellValue(At(tableData(St), k[2], k[3])) = typed[k]
                /\ BufHas(lastSent, k) => lastSent[k] = parseCellValue(typed[k])

\* C5: a timer fire dispatches one set_cell call per queued change, in the
\* queue's order, and leaves the queue empty; at most one timer is armed,
\* and the queue is not non-empty without an armed timer.
C5_FireSendsQueue ==
    /\ Cardinality(timers) <= 1
    /\ pendingChanges # << >> => timers # {}
    /\ last.ev = "fire" =>
           /\ pendingChanges = << >>
           /\ Len(sent) = Len(last.queue)
           /\ \A i \in 1..Len(sent) :
                  /\ sent[i].row = last.queue[i].row
                  /\ sent[i].col = last.queue[i].col
                  /\ sent[i].value = last.queue[i].value

\* C6: right after handleCellEditing(row, col, text), before the timer
\* fires, the mirror cell (row, col) of the active sheet formats to text,
\* also when the cell was missing from a short row.
C6_OptimisticWrite ==
    last.ev = "input" =>
        getCellValue(At(tableData(St), last.row, last.col)) = last.text

\* C7 as amended: right after handleInput(text) the cell displays text; while
\* a cell keeps its buffer entry and the rows of the active sheet do not
\* change, the entry changes only by a keystroke; and when the rows change
\* while the selected cell keeps its entry, the entry becomes the formatted
\* document value of the cell.
SameSheet == HasSheet(St) /\ HasSheet(St') /\ currentSheet(St').id = currentSheet(St).id

KeptEntry(key) == BufHas(editingValue, key) /\ BufHas(editingValue', key)

C7_BufferFollowsDocument ==
    /\ [](last.ev = "input" => getDisplayValue(St, last.row, last.col) = last.text)
    /\ [][\A key \in DOMAIN editingValue :
             (/\ KeptEntry(key) /\ SameSheet /\ tableData(St') = tableData(St)
              /\ last'.ev # "input")
             => editingValue'[key] = editingValue[key]]_vars
    /\ [][(/\ KeptEntry(SelectionKey) /\ SameSheet
           /\ selectedCell' = selectedCell
           /\ tableData(St') # tableData(St))
          => editingValue'[SelectionKey] =
                 getCellValue(At(tableData(St'), selectedCell.row,
                                 selectedCell.col))]_vars

\* an undo result that arrived while the user was typing in the cell it
\* changes: the cell stays in edit mode and displays the restored value
\* instead of the text typed
C7_Witness ==
    /\ last.ev = "undo ok" /\ focus = "cell"
    /\ SelectionKey = getKey(last.row, last.col)
    /\ BufHas(editingValue, SelectionKey)
    /\ \E k \in TypedHere :
           /\ getKey(k[2], k[3]) = SelectionKey
           /\ typed[k] # editingValue[SelectionKey]

\* C7 as stated, for an undo result: the cell in which the user typed last
\* displays the typed text also after an undo result was applied.
C7_TypedTextSurvivesUndo ==
    [][(last.ev = "input" /\ last'.ev = "undo ok")
          => getDisplayValue(St', last.row, last.col) = last.text]_vars

\* C8: a commit, by the blur of the grid cell or by Enter or blur in the
\* editor bar, whose text equals the formatted document value of the cell
\* dispatches no set_cell call and leaves no cell in edit mode and no buffer
\* entry for the cell.
C8_CommitNoOp ==
    [][(/\ last'.ev \in {"blur", "submit"}
        /\ last'.text = getCellValue(At(tableData(St), last'.row, last'.col)))
          => /\ sent' = << >>
             /\ editingCell' = NoKey
             /\ ~BufHas(editingValue', getKey(last'.row, last'.col))]_vars

\* C9: after a sheet change and after a change of the selection to another
\* cell or to none, no edit buffer entry made before remains (the only entry
\* there may be is the one of the cell now selected), and the change
\* commits nothing.
C9_BufferClearedOnChange ==
    [][(last'.ev = "sheet" \/ SelectionKey' # SelectionKey) =>
          /\ DOMAIN editingValue' \subseteq {SelectionKey'}
          /\ sent' = << >>]_vars

\* C10: for a cell selected on sheet i, a change to another sheet j followed
\* by the change back to i restores the selection and shows in the editor
\* bar the formatted value of that cell of sheet i.
C10_SelectionMemory ==
    last.round =>
        /\ SelectionKey = last.want
        /\ cellEditorValue =
               getCellValue(At(tableData(St), last.want[1], last.want[2]))

\* C11: whenever a cell is selected (no handler running), the editor bar
\* shows the displayed value of the selected cell of the active sheet: its
\* buffer text while it has one, else its formatted document value.
C11_BarLockstep ==
    (selectedCell # NoCell /\ HasSheet(St)) =>
        cellEditorValue = getDisplayValue(St, selectedCell.row, selectedCell.col)

\* C12: the set_cell call that commits an edit carries as old value the value
\* the cell held before the edit and as new value the typed text parsed.
\* Stated for the edit made of the first keystroke typed into a cell, which
\* the very next timer fire commits.
C12_OldAndNewValue ==
    [][(last.ev \in {"input", "bar"} /\ last.first /\ last'.ev = "fire") =>
          \A j \in 1..Len(sent') :
              (sent'[j].row = last.row /\ sent'[j].col = last.col) =>
                  /\ sent'[j].oldValue = last.before
                  /\ sent'[j].newValue = parseCellValue(last.text)]_vars

\* C13: a structural operation takes effect on the mirror exactly once: when
\* the backend has confirmed an add row, add column or add sheet, the sheet
\* the call addressed (the document) has exactly one row, column or sheet
\* more than when the user asked for it, after a confirmed delete exactly one
\* less (the confirmation included, which must not apply it again).
C13_ExactlyOnce ==
    LET Confirmed == last.call
        RowsNow == fileData.sheets[Confirmed.sheetIndex + 1].rows
        SizeNow ==
            CASE Confirmed.kind \in {"add_row", "delete_row"} -> Len(RowsNow)
              [] Confirmed.kind \in {"add_column", "delete_column"} ->
                    MaxLen(RowsNow)
              [] OTHER -> Len(fileData.sheets)
        Growth ==
            IF Confirmed.kind \in {"add_row", "add_column", "add_sheet"}
            THEN 1 ELSE -1
    IN  last.ev \in {"structural ok", "add_sheet ok", "delete_sheet ok"} =>
            SizeNow = Confirmed.size + Growth

\* C14: canUndo and canRedo change only in the step that handles the answer
\* of a get_editor_state call, and every successful mutating call (set cell,
\* add or delete of a row, column or sheet, undo, redo) is followed at once
\* by the dispatch of a get_editor_state call.
C14_FlagsFromBackend ==
    [][LET Refreshes(cs) ==
               Cardinality({j \in 1..Len(cs) : cs[j].kind = "get_editor_state"})
       IN  /\ (canUndo' # canUndo \/ canRedo' # canRedo) =>
                   last'.ev = "editor state"
           /\ last'.ev \in {"set_cell ok", "structural ok", "add_sheet ok",
                            "delete_sheet ok", "undo ok", "redo ok"} =>
                   Refreshes(calls') = Refreshes(calls) + 1]_vars

\* a redo succeeded and its refresh is in flight, the redo button having been
\* enabled by an earlier answer of the backend
C14_Witness ==
    /\ last.ev = "redo ok"
    /\ \E j \in 1..Len(calls) : calls[j].kind = "get_editor_state"

\* C15: when a set_cell call fails, the mirror (with the optimistically
\* written value), the selection and its per-sheet memory, the editor bar,
\* the edit buffer, the active sheet, the queue and the timer are what they
\* were, and no call is dispatched: the failed call only leaves the calls in
\* flight.
C15_FailureChangesNothing ==
    [][last'.ev = "set_cell failed" =>
          /\ fileData' = fileData
          /\ currentSheetIndex' = currentSheetIndex
          /\ selectedCell' = selectedCell
          /\ sheetSelectedCells' = sheetSelectedCells
          /\ cellEditorValue' = cellEditorValue
          /\ editingValue' = editingValue
          /\ editingCell' = editingCell
          /\ pendingChanges' = pendingChanges
          /\ timers' = timers
          /\ hasChanges' = hasChanges
          /\ canUndo' = canUndo /\ canRedo' = canRedo
          /\ sent' = << >>
          /\ \E i \in 1..Len(calls) : calls' = RemoveAt(calls, i - 1)]_vars

\* a set_cell call failed and the mirror still holds the typed text
C15_Witness ==
    /\ last.ev = "set_cell failed"
    /\ At(tableData(St), last.row, last.col) = Text(last.text)
    /\ At(InitSheets[1].rows, last.row, last.col) # Text(last.text)

\* C16: an operation that addresses no sheet of the mirror, a SetCell whose
\* row does not exist and a Batch none of whose rows exists change nothing:
\* the mirror, the active sheet index and the selection are what they were
\* before the operation was applied.
C16_SilentNoOp ==
    [][LET op == last'.op
           there == op.sheet_index >= 0 /\ op.sheet_index < Len(fileData.sheets)
           rows == fileData.sheets[op.sheet_index + 1].rows
           NoTarget ==
               \/ ~there
               \/ op.type = "SetCell" /\ ~RowExists(rows, op.row)
               \/ op.type = "Batch" /\
                     \A k \in 1..Len(op.changes) : ~RowExists(rows, op.changes[k].row)
       IN  (last'.ev \in {"undo ok", "redo ok"} /\ NoTarget) =>
               /\ fileData' = fileData
               /\ currentSheetIndex' = currentSheetIndex
               /\ selectedCell' = selectedCell]_vars

\* a cell is selected and undo returned the deletion of a row of a sheet the
\* mirror does not have
C16_Witness ==
    /\ last.ev = "undo ok"
    /\ last.op.type = "DeleteRow"
    /\ last.op.sheet_index >= Len(fileData.sheets)
    /\ selectedCell # NoCell

\* C17: the reducer's structural operations against the reference, on every
\* sheet, short rows and no rows included.  DeleteRow(i) leaves the rows
\* before i, then the rows after i, one row less; AddRow(i) leaves the rows
\* before i, a row of empty cells as wide as the first row was (0 on a sheet
\* without rows), then the rows from i on; AddColumn(i) makes every row one
\* cell longer, the new cell empty and the other cells in their order;
\* DeleteColumn(i) takes the cell at i out of every row that has one.  An
\* index past the end deletes nothing and adds at the end.  Nothing else of
\* the mirror changes.
C17_ReducerMatchesReference ==
    [][LET op == last'.op
           k == op.sheet_index + 1
           old == fileData.sheets[k].rows
           new == fileData'.sheets[k].rows
           Min(a, b) == IF a <= b THEN a ELSE b
           Without(seq, i) ==
               IF i >= Len(seq) THEN seq
               ELSE [j \in 1..(Len(seq) - 1) |-> IF j <= i THEN seq[j] ELSE seq[j + 1]]
           With(seq, i, x) ==
               [j \in 1..(Len(seq) + 1) |->
                   IF j <= Min(i, Len(seq)) THEN seq[j]
                   ELSE IF j = Min(i, Len(seq)) + 1 THEN x ELSE seq[j - 1]]
           Empties(n) == [j \in 1..n |-> Null]
           Reference ==
               CASE op.type = "DeleteRow" -> Without(old, op.row)
                 [] op.type = "AddRow" ->
                      With(old, op.row,
                           Empties(IF Len(old) = 0 THEN 0 ELSE Len(old[1])))
                 [] op.type = "AddColumn" ->
                      [r \in 1..Len(old) |-> With(old[r], op.col, Null)]
                 [] op.type = "DeleteColumn" ->
                      [r \in 1..Len(old) |-> Without(old[r], op.col)]
       IN  (/\ last'.ev \in {"undo ok", "redo ok"}
            /\ op.type \in {"DeleteRow", "AddRow", "AddColumn", "DeleteColumn"}
            /\ k \in 1..Len(fileData.sheets)) =>
               /\ new = Reference
               /\ op.type = "AddColumn" =>
                     \A r \in 1..Len(old) : Len(new[r]) = Len(old[r]) + 1
               /\ Len(fileData'.sheets) = Len(fileData.sheets)
               /\ \A n \in 1..Len(fileData.sheets) :
                      n # k => fileData'.sheets[n] = fileData.sheets[n]
               /\ currentSheetIndex' = currentSheetIndex]_vars

\* a row was added to a sheet that had lost its only row: the sheet has one
\* row without cells
C17_Witness ==
    /\ last.ev = "undo ok"
    /\ last.op.type = "AddRow"
    /\ last.op.sheet_index = 2
    /\ Len(fileData.sheets) = 3
    /\ fileData.sheets[3].rows = << << >> >>

\* C18: replaying an operation is idempotent: once undo or redo has applied
\* an operation, applying the same operation again through applyOperation
\* changes neither the mirror nor the active sheet index.
C18_ReplayIdempotent ==
    last.ev \in {"undo ok", "redo ok"} =>
        /\ applyOperation(St, last.op).fileData = fileData
        /\ applyOperation(St, last.op).currentSheetIndex = currentSheetIndex

\* C19: auto-scroll is one-shot: when an event has scrolled the table to
\* centre the selected cell, the auto-scroll flag is disabled once the event
\* is handled.
C19_AutoScrollConsumed == scrolled # NoScroll => ~autoScroll

\* C20: a grid click on cell (r, c) leaves (r, c) selected and auto-scroll
\* disabled, and scrolls nothing, whatever navigation came before it.
C20_ClickSelectsWithoutScroll ==
    [][last'.ev = "click" =>
          /\ SameCell(selectedCell', last'.row, last'.col)
          /\ ~autoScroll'
          /\ scrolled' = NoScroll]_vars

\* a cell was clicked while auto-scroll was still enabled by the navigation
\* before the click
C20_Witness ==
    /\ last.ev = "click" /\ last.auto
    /\ SameCell(selectedCell, last.row, last.col)
    /\ ~autoScroll

\* C21: a click on a search result at (r, c) of sheet s leaves sheet s
\* active, (r, c) selected, in edit mode, and auto-scroll enabled, and the
\* editor bar and the input of the cell show the text of cell (r, c) of
\* sheet s.
C21_SearchResultClick ==
    last.ev = "search-click" =>
        LET cell == At(fileData.sheets[last.sheet + 1].rows, last.row, last.col)
            text == IF cell \in {Null, Undef} THEN EmptyStr ELSE String(cell)
        IN  /\ currentSheetIndex = last.sheet
            /\ SameCell(selectedCell, last.row, last.col)
            /\ autoScroll
            /\ cellEditorValue = text
            /\ editingCell = getKey(last.row, last.col)
            /\ getDisplayValue(St, last.row, last.col) = text

\* the user typed into cell (0, 0) of the first sheet, and then clicked the
\* search result at (0, 0) of the second sheet: the bar shows that cell
C21_Witness ==
    /\ last.ev = "search-click" /\ last.sheet = 1
    /\ BufHas(typed, <<InitSheets[1].id, 0, 0>>)
    /\ editingCell = getKey(0, 0)
    /\ cellEditorValue = <<"a">>

\* C22: the round trip of value coercion.  When the text saved for a cell is
\* the text the cell's value is shown as ("" for an absent value), the value
\* parsed from it is the value the cell holds (absent for an absent value).
\* As claimed, for every number, boolean and text:
C22_RoundTripEveryValue ==
    \A j \in 1..Len(sent) :
        LET v == sent[j].oldValue
        IN  sent[j].value = getCellValue(v) =>
                sent[j].newValue = (IF v \in {Null, Undef} THEN Null ELSE v)

\* C22, amended: the round trip holds for every number, every boolean, the
\* absent value and every plain text: a text that is not empty, is not
\* "true" or "false" in any case, and does not read as a number unless it
\* starts with a zero followed by a digit.
C22_RoundTripPlainValues ==
    \A j \in 1..Len(sent) :
        LET v == sent[j].oldValue
            plain == \/ v.t # "text"
                     \/ /\ v.v # EmptyStr
                        /\ toLowerCase(v.v) \notin {TrueStr, FalseStr}
                        /\ LeadingZero(v.v) \/ NumberStr(v.v) = NaNStr
        IN  (plain /\ sent[j].value = getCellValue(v)) =>
                sent[j].newValue = (IF v \in {Null, Undef} THEN Null ELSE v)

\* the text shown for a number was saved, and the text of an absent cell
C22_Witness ==
    /\ Len(sent) = 2
    /\ \E j \in 1..2 : sent[j].oldValue = Num(<<"-", "5">>) /\ sent[j].value = <<"-", "5">>
    /\ \E j \in 1..2 : sent[j].oldValue = Null /\ sent[j].value = EmptyStr

\* C23: the value saved for a text is the one the rules give, in their
\* order: "" is absent; a "0" followed by a digit starts a text; a finite
\* number (an optional sign and decimal digits) is that number; "true" and
\* "false" in any letter case are booleans; everything else, whitespace and
\* malformed numbers included, is the text itself.
C23_ParseRules ==
    \A j \in 1..Len(sent) :
        LET str == sent[j].value
            body == IF str # << >> /\ Head(str) \in {"-", "+"} THEN Tail(str) ELSE str
            minus == IF Head(str) = "-" /\ DigitsValue(body) # 0 THEN <<"-">> ELSE << >>
            Rules ==
                IF str = << >> THEN Null
                ELSE IF Len(str) >= 2 /\ str[1] = "0" /\ str[2] \in Digits
                     THEN Text(str)
                ELSE IF body # << >> /\ \A i \in 1..Len(body) : body[i] \in Digits
                     THEN Num(minus \o NatStr(DigitsValue(body)))
                ELSE IF toLowerCase(str) = TrueStr THEN Bool(TrueStr)
                ELSE IF toLowerCase(str) = FalseStr THEN Bool(FalseStr)
                ELSE Text(str)
        IN  sent[j].newValue = Rules

\* C24: once every call in flight has been answered or has failed, no
\* loading flag is raised.
C24_FlagsLowered ==
    calls = << >> => ~isLoading /\ ~isFileLoading /\ ~isSearching

\* every command was given, the call answered last failed, and nothing is
\* in flight any more
C24_Witness ==
    /\ calls = << >>
    /\ budget.commands = 0
    /\ last.ev \in {"structural failed", "delete_sheet failed", "search failed",
                    "read_file failed", "editor state failed"}

C26_DeleteCarriesContents ==
    \A i \in 1..Len(calls) :
        calls[i].kind \in {"delete_row", "delete_column"} =>
            calls[i].contents.given /\ calls[i].contents.cells = calls[i].removed

(***************************************************************************)
(* C27: whenever the selection changes to a cell (row, col) while          *)
(* auto-scroll is enabled, the grid scrolls to scrollTop = max(0, row*40 - *)
(* viewportHeight/2 + 20) and scrollLeft = max(0, 60 + col*120 -           *)
(* viewportWidth/2 + 60).  (A selection changes when the selected cell is  *)
(* another cell of the sheet or a cell of another sheet.)                  *)
(***************************************************************************)
C27_ScrollCentres ==
    [][(/\ last'.ev \in {"search-click", "sheet"}
        /\ selectedCell' # NoCell /\ autoScroll'
        /\ <<currentSheetIndex', SelectionKey'>> # <<currentSheetIndex, SelectionKey>>)
       => scrolled' = centre(selectedCell'.row, selectedCell'.col)]_vars

(***************************************************************************)
(* C28: a search with an empty query, a whitespace-only query included, is *)
(* never dispatched to the backend: every search call in flight carries a  *)
(* query that is not empty once trimmed.                                   *)
(***************************************************************************)
C28_NoEmptySearch ==
    \A i \in 1..Len(calls) :
        calls[i].kind = "search" => Trim(calls[i].value) # EmptyStr

\* a whitespace-only query was submitted, and no call is in flight
C28_Witness ==
    /\ last.ev = "search"
    /\ last.text # EmptyStr /\ Trim(last.text) = EmptyStr
    /\ calls = << >> /\ ~isSearching

(***************************************************************************)
(* C29: changing the selection without changing any text (a click on a     *)
(* grid cell, a click on a search result, the selection restored by a      *)
(* sheet change) leaves the queue of pending changes and the debounce      *)
(* timer unchanged and causes no set_cell call: such an event changes      *)
(* neither, and as long as no text was typed no set_cell call is sent.     *)
(***************************************************************************)
C29_SelectionLeavesQueue ==
    [][/\ (\/ last'.ev \in {"click", "search-click"}
           \/ last'.ev = "sheet" /\ selectedCell' # NoCell)
          => /\ pendingChanges' = pendingChanges
             /\ timers' = timers /\ debounceTimer' = debounceTimer
       /\ typed' = NoBuf => sent' = << >>]_vars

(***************************************************************************)
(* C30: every set_cell call dispatched when the debounce timer fires       *)
(* addresses the cell the user edited: if a row or a column was removed or *)
(* added between the schedule and the fire, no call is sent against        *)
(* another cell that now has the queued coordinates, and firing never      *)
(* fails on a row that no longer exists.  (Stated for the entries typed    *)
(* into the active sheet.)                                                 *)
(***************************************************************************)
C30_FireAddressesEditedCell ==
    [][last'.ev = "fire" =>
          \A k \in 1..Len(pendingChanges) :
              LET e == pendingChanges[k]
              IN  HasSheet(St) /\ e.sheet = currentSheet(St).id =>
                      /\ RowExists(tableData(St), e.row)
                      /\ e.now # <<e.row, e.col>> =>
                             \A j \in 1..Len(sent') :
                                 <<sent'[j].row, sent'[j].col>> # <<e.row, e.col>>]_vars

(***************************************************************************)
(* C31: whenever no change is pending and no backend call is in flight,    *)
(* every cell of the mirror holds the typed value the backend was last     *)
(* sent for it: after text t is committed for a cell the mirror holds      *)
(* parseCellValue(t), not the raw string.  (Stated for the cells of the    *)
(* active sheet; every call of the behaviour succeeds.)                    *)
(***************************************************************************)
C31_MirrorHoldsSentValue ==
    (pendingChanges = << >> /\ timers = {} /\ calls = << >> /\ HasSheet(St)) =>
        \A k \in DOMAIN lastSent :
            k[1] = currentSheet(St).id =>
                LET held == At(tableData(St), k[2], k[3])
                IN  \/ held = lastSent[k]
                    \/ held \in {Null, Undef} /\ lastSent[k] = Null

(***************************************************************************)
(* C32: while a document with at least one sheet is open, the active sheet *)
(* index addresses an existing sheet: 0 <= currentSheetIndex < number of   *)
(* sheets, in every interleaving of add sheet, delete sheet, clicks on     *)
(* earlier search results, undo results and late answers of the backend.   *)
(***************************************************************************)
C32_SheetIndexInRange ==
    fileData.open /\ Len(fileData.sheets) >= 1 =>
        currentSheetIndex >= 0 /\ currentSheetIndex < Len(fileData.sheets)

(***************************************************************************)
(* C33: the selection restored when switching to a sheet is the last       *)
(* selection made on that same sheet.  When the user deletes a sheet, the  *)
(* selection made on it is not carried over to the sheet that becomes      *)
(* active, and no memory entry stays at an index that another sheet now    *)
(* occupies: the entry at such an index is the one of the sheet that moved *)
(* there, or none.                                                         *)
(***************************************************************************)
C33_MemoryFollowsSheets ==
    [][(last'.ev = "delete-sheet" /\ Len(fileData'.sheets) < Len(fileData.sheets)) =>
          /\ selectedCell' = NoCell
          /\ \A i \in DOMAIN sheetSelectedCells' :
                 i >= currentSheetIndex =>
                     sheetSelectedCells'[i] \in
                         {NoCell, MemGet(sheetSelectedCells, i + 1)}]_vars

(***************************************************************************)
(* C34: after add sheet, delete sheet, undo and redo whose calls all       *)
(* succeeded the mirror has the sheets of the backend document, with the   *)
(* same names in the same order: when undo or redo returns the sheet       *)
(* operation the backend applied to its document, the mirror takes the     *)
(* same step.  A sheet added at an index appears there under its name      *)
(* (undoing a sheet deletion, redoing a sheet addition), a sheet deleted   *)
(* at an index disappears.                                                 *)
(***************************************************************************)
C34_MirrorFollowsSheetOperations ==
    [][LET op == last'.op
           Names(sheets) == [i \in 1..Len(sheets) |-> sheets[i].name]
           old == Names(fileData.sheets)
           new == Names(fileData'.sheets)
       IN  (/\ last'.ev \in {"undo ok", "redo ok"}
            /\ op.type \in {"AddSheet", "DeleteSheet"}
            /\ op.sheet_index >= 0 /\ op.sheet_index < Len(old)) =>
               IF op.type = "AddSheet"
               THEN new = InsertAt(old, op.sheet_index, op.name)
               ELSE new = RemoveAt(old, op.sheet_index)]_vars

(***************************************************************************)
(* C35: when a new document is loaded through handleOpenFile while the     *)
(* table view is live, no pending change, selection or per-sheet memory    *)
(* entry recorded against the previous document is applied to the new one: *)
(* once the document is loaded nothing is selected, the memory and the     *)
(* queue are empty and no timer is armed, and a debounce fire after the    *)
(* load dispatches no set_cell call for a text typed into the previous     *)
(* document.                                                               *)
(***************************************************************************)
C35_LoadDropsPreviousDocument ==
    /\ last.ev = "read_file ok" =>
           /\ selectedCell = NoCell
           /\ \A i \in DOMAIN sheetSelectedCells : sheetSelectedCells[i] = NoCell
           /\ pendingChanges = << >> /\ timers = {}
    /\ last.ev = "fire" =>
           \A k \in 1..Len(last.queue) :
               LET e == last.queue[k]
               IN  (/\ e.sheet # -1
                    /\ \A i \in 1..Len(fileData.sheets) : fileData.sheets[i].id # e.sheet)
                   => \A j \in 1..Len(sent) :
                          <<sent[j].row, sent[j].col>> # <<e.row, e.col>>

(***************************************************************************)
(* C36: an undo or redo request is dispatched only when every edit the     *)
(* user made before it has been sent to the backend: at the dispatch the   *)
(* Pending-Changes Queue is empty, no debounce timer is armed, and every   *)
(* text typed into a cell was sent as that cell's value.                   *)
(***************************************************************************)
C36_UndoAfterEveryEdit ==
    (last.ev = "undo" /\ \E i \in 1..Len(calls) : calls[i].kind = "undo")
    => /\ pendingChanges = << >>
       /\ timers = {}
       /\ \A k \in DOMAIN typed :
              BufHas(lastSent, k) /\ lastSent[k] = parseCellValue(typed[k])

(***************************************************************************)
(* The undo and redo flags against the backend's history: one cell edited, *)
(* rows added, undo and redo, with two calls in flight at a time, every    *)
(* refresh answered with the backend's editor state or failing.            *)
(***************************************************************************)
InitFlags ==
    /\ InitView
    /\ budget = [typing |-> 1, clicks |-> 1, sheets |-> 0,
                 commands |-> MaxCommands,
                 flights |-> MaxConcurrent]

NextFlags ==
    \/ \E cell \in ClickCells : GridClick(cell[1], cell[2])
    \/ FocusCell
    \/ \E str \in TypedTexts : HandleInput(str)
    \/ HandleBlur
    \/ AddRow
    \/ Undo
    \/ Redo
    \/ \E t \in timers : Fire(t)
    \/ \E i \in 1..Len(calls) : SetCellOk(i)
    \/ \E i \in 1..Len(calls) : StructuralOk(i)
    \/ \E i \in 1..Len(calls) : EditorStateOk(i, backend)
    \/ \E i \in 1..Len(calls) : EditorStateFail(i)
    \/ \E i \in 1..Len(calls), op \in UndoResults : backend.can_undo /\ UndoOk(i, op)
    \/ \E i \in 1..Len(calls) : UndoFail(i)
    \/ \E i \in 1..Len(calls), op \in UndoResults : backend.can_redo /\ RedoOk(i, op)

SpecFlags == InitFlags /\ [][NextFlags]_vars

(***************************************************************************)
(* C37: whenever no backend call is in flight, canUndo and canRedo equal   *)
(* the backend's current editor state.                                     *)
(***************************************************************************)
C37_FlagsEqualBackend ==
    calls = << >> => /\ canUndo = backend.can_undo
                     /\ canRedo = backend.can_redo

(***************************************************************************)
(* C38: hasChanges is true whenever the Document mirror differs from the   *)
(* document as last loaded or saved.  (Stated where the document is loaded *)
(* once and never saved: the document as loaded is InitSheets.)            *)
(***************************************************************************)
C38_ChangedMirrorIsFlagged ==
    fileData.sheets # InitSheets => hasChanges

(***************************************************************************)
(* Deleting sheets down to the last one: the delete-sheet button as often  *)
(* as the document has sheets, the sheet selector, one click on a search   *)
(* result found earlier (one of them on the third sheet), and the          *)
(* backend's answers, which may fail.                                      *)
(***************************************************************************)
InitDeleteSheet ==
    /\ InitView
    /\ budget = [typing |-> 0, clicks |-> 1, sheets |-> 1,
                 commands |-> MaxDeletes, flights |-> MaxInFlight]

NextDeleteSheet ==
    \/ \E result \in SearchResults \cup {[sheet_index |-> 2, row |-> 0, col |-> 1]} :
           SearchResultClick(result)
    \/ \E index \in SheetIndexes : SheetChange(index)
    \/ DeleteSheet
    \/ \E t \in timers : Fire(t)
    \/ \E i \in 1..Len(calls) : SetCellOk(i)
    \/ \E i \in 1..Len(calls) : DeleteSheetOk(i)
    \/ \E i \in 1..Len(calls) : DeleteSheetFail(i)
    \/ \E i \in 1..Len(calls), state \in EditorStates : EditorStateOk(i, state)

SpecDeleteSheet == InitDeleteSheet /\ [][NextDeleteSheet]_vars

(***************************************************************************)
(* C39: handleDeleteSheet on a document with a single sheet changes        *)
(* nothing and makes no backend call; with two or more sheets it removes   *)
(* exactly the active sheet and makes the previous sheet active, or the    *)
(* new first sheet when the first one was deleted, and at least one sheet  *)
(* is left.                                                                *)
(***************************************************************************)
C39_DeleteSheetRemovesActive ==
    [][last'.ev = "delete-sheet" =>
           LET sheets == fileData.sheets
               index == currentSheetIndex
           IN  IF Len(sheets) <= 1
               THEN /\ fileData' = fileData
                    /\ currentSheetIndex' = currentSheetIndex
                    /\ calls' = calls
               ELSE /\ index < Len(sheets)
                    /\ Len(fileData'.sheets) = Len(sheets) - 1
                    /\ \A i \in 1..Len(fileData'.sheets) :
                           fileData'.sheets[i] = sheets[IF i <= index THEN i ELSE i + 1]
                    /\ currentSheetIndex' = (IF index > 0 THEN index - 1 ELSE 0)
                    /\ Len(fileData'.sheets) >= 1]_vars

====
